---- MODULE Spec2Model ----
(***************************************************************************)
(* Model of the chat backend: message reactions (routes_chat.py), chat     *)
(* membership and bans (routes_chat_enhanced.py, database_enhanced.py,     *)
(* permissions.py), the friend graph (routes_friends.py) and the realtime  *)
(* session registry (socket_manager.py).                                   *)
(*                                                                         *)
(* Request handlers are coroutines: they interleave only at their awaits.  *)
(* A handler whose reads, writes and emits are separated by awaits is      *)
(* modelled as one action per segment between awaits, with its locals kept *)
(* in a request slot.                                                      *)
(***************************************************************************)
EXTENDS Integers, Sequences, FiniteSets, TLC

\* ---------------------------------------------------------------- universe
Users == {"u1", "u2", "u3"}
Msgs == {"m1"}
Emojis == {"e1", "e2"}
ChatIds == {"c1", "c2"}
\* one request slot per client issuing HTTP requests, and the identity its
\* bearer token is bound to (get_current_user)
Reqs == {"r1", "r2"}
ReqUser(r) == IF r = "r1" THEN "u1" ELSE "u2"

\* at most this many emitted events are in flight to clients at a time
MaxEvents == 2

None == "none"

\* ------------------------------------------------------------------- state
VARIABLES
    messages,   \* db.messages: message id -> document
    rreq,       \* in-flight reaction requests: slot -> locals of the coroutine
    events,     \* events handed to sio.emit and not yet delivered, oldest first
    resp,       \* the status of the last HTTP response returned
    chats,      \* db.chats: chat id -> document
    creq,       \* in-flight ban / join / invite requests: slot -> locals
    friends,    \* users.friends: user id -> set of user ids
    blocked_users,   \* users.blocked_users: user id -> set of user ids
    blocks,          \* db.blocks: set of <<blocker_id, blocked_id>>
    friend_requests, \* db.friend_requests: request id -> document
    freq,       \* in-flight friend requests handlers: slot -> locals
    status,     \* transport state of each connection id: new, open, closed
    user_connections, \* SocketManager.user_connections: user id -> set of sids
    profiles,   \* users.is_online / last_seen / contacts: user id -> fields
    areq,       \* in-flight authenticate handlers: sid -> locals
    dreq,       \* in-flight disconnect handlers: sid -> locals
    rooms,      \* Socket.IO rooms each sid has entered: sid -> set of room ids
    chat_presence,    \* SocketManager.chat_presence: chat id -> set of user ids
    typing_users,     \* SocketManager.typing_users: chat id -> set of user ids
    out,        \* the signal handled by the last step and what the step emitted
    now         \* utc_now(), in hours

msgVars == <<messages, rreq, events>>
chatVars == <<chats, creq>>
socialVars == <<friends, blocked_users, blocks, friend_requests, freq>>
sockVars == <<status, user_connections, profiles, areq, dreq, rooms,
              chat_presence, typing_users, out>>
vars == <<messages, rreq, events, resp, chats, creq, friends, blocked_users,
          blocks, friend_requests, freq, status, user_connections, profiles,
          areq, dreq, rooms, chat_presence, typing_users, out, now>>

\* what the handlers of one part leave alone
notMsgVars == <<chatVars, socialVars, sockVars, now>>
notChatVars == <<messages, rreq, events, socialVars, sockVars, now>>
notSocialVars == <<msgVars, chatVars, sockVars, now>>
notSockVars == <<msgVars, chatVars, socialVars, resp, now>>

\* message['reactions'] is a dict emoji -> list of user ids; a key is present
\* only while its list is non-empty, and a list never holds an id twice.
EmptyMap == [x \in {} |-> {}]

\* ------------------------------------------------------------ messages
\* the window in which a message can be edited, in hours
EditWindow == 48
\* the hour the stored message was created at, the hour the clock starts at
\* and the hour it stops at
CreatedAt == 0
StartNow == 47
MaxNow == 49

Original == "original"
WasDeleted == "This message was deleted"

\* a message document as send_message stores it
Message(chat, sender) ==
    [chat_id |-> chat, sender_id |-> sender, content |-> Original,
     reactions |-> EmptyMap, edited |-> FALSE, deleted |-> FALSE,
     deleted_for |-> {}, read_by |-> {}, created_at |-> CreatedAt,
     reply_to |-> None, forwarded_from |-> None]

\* ------------------------------------------------------- reactions: helpers

\* the emoji keys under which user u appears
BucketsOf(reactions, u) == {e \in DOMAIN reactions : u \in reactions[e]}

\* users.remove(user_id); if not users: del reactions[existing_emoji]
DropFromBucket(reactions, ex, u) ==
    IF reactions[ex] \ {u} = {}
    THEN [e \in DOMAIN reactions \ {ex} |-> reactions[e]]
    ELSE [reactions EXCEPT ![ex] = @ \ {u}]

\* if emoji not in reactions: reactions[emoji] = []
\* if user_id not in reactions[emoji]: reactions[emoji].append(user_id)
AddToBucket(reactions, em, u) ==
    IF em \in DOMAIN reactions
    THEN [reactions EXCEPT ![em] = @ \cup {u}]
    ELSE [e \in DOMAIN reactions \cup {em} |->
              IF e = em THEN {u} ELSE reactions[e]]

\* the set of emoji the "remove existing reaction" loop of add_reaction may
\* stop at: the first key, in dict order, whose list holds the user
ExistingEmoji_skip(reactions, u) == {}
ExistingEmoji(reactions, u) == BucketsOf(reactions, u)

IdleReq == [op |-> None, pc |-> "idle", user |-> None, msg |-> None,
            emoji |-> None, local |-> EmptyMap, had |-> FALSE,
            removed |-> None]

ReactionEvent(chat, m, em, u, action) ==
    [kind |-> "message_reaction", chat |-> chat, msg |-> m, emoji |-> em,
     user |-> u, action |-> action]

\* before any response; a response is recorded by its status, and a 403 of
\* the membership gate by its detail as well
NoResp == None

\* ------------------------------------------------- add_reaction (react)
\* message = await get_message_by_id(message_id)
ReactRead(r, m, em) ==
    LET u == ReqUser(r) IN
    /\ rreq[r].pc = "idle"
    /\ IF m \in DOMAIN messages
       THEN /\ rreq' = [rreq EXCEPT ![r] =
                   [op |-> "react", pc |-> "scan", user |-> u, msg |-> m,
                    emoji |-> em, local |-> messages[m].reactions,
                    had |-> (em \in DOMAIN messages[m].reactions
                             /\ u \in messages[m].reactions[em]),
                    removed |-> None]]
            /\ UNCHANGED resp
       ELSE /\ resp' = "404"
            /\ UNCHANGED rreq
    /\ UNCHANGED <<messages, events>>
    /\ UNCHANGED notMsgVars

\* the loop body: drop the user from the bucket found, keep its emoji in
\* removed_emoji and broadcast the removal, before anything is written
ReactRemoveOld(r) ==
    LET q == rreq[r] IN
    /\ q.op = "react" /\ q.pc = "scan"
    /\ Len(events) < MaxEvents
    /\ \E ex \in ExistingEmoji(q.local, q.user) :
          LET nl == DropFromBucket(q.local, ex, q.user) IN
          /\ rreq' = [rreq EXCEPT ![r].local = nl, ![r].pc = "removed",
                                  ![r].removed = ex]
          /\ events' = Append(events,
                 ReactionEvent(messages[q.msg].chat_id, q.msg, ex, q.user, "remove"))
    /\ UNCHANGED <<messages, resp>>
    /\ UNCHANGED notMsgVars

\* await update_message(message_id, {'reactions': reactions}), on either path
ReactWrite(r) ==
    LET q == rreq[r] IN
    /\ q.op = "react"
    /\ \/ q.pc = "removed"
       \/ q.pc = "scan" /\ ExistingEmoji(q.local, q.user) = {}
    /\ IF q.had
       THEN /\ messages' = [messages EXCEPT ![q.msg].reactions = q.local]
            /\ rreq' = [rreq EXCEPT ![r] = IdleReq]
            /\ resp' = "removed"
       ELSE LET nl == AddToBucket(q.local, q.emoji, q.user) IN
            /\ messages' = [messages EXCEPT ![q.msg].reactions = nl]
            /\ rreq' = [rreq EXCEPT ![r].local = nl, ![r].pc = "written"]
            /\ UNCHANGED resp
    /\ UNCHANGED events
    /\ UNCHANGED notMsgVars

\* await socket_manager.broadcast_reaction(... 'action': 'add' ...)
ReactEmitAdd(r) ==
    LET q == rreq[r] IN
    /\ q.op = "react" /\ q.pc = "written"
    /\ Len(events) < MaxEvents
    /\ events' = Append(events,
           ReactionEvent(messages[q.msg].chat_id, q.msg, q.emoji, q.user, "add"))
    /\ rreq' = [rreq EXCEPT ![r] = IdleReq]
    /\ resp' = "added"
    /\ UNCHANGED messages
    /\ UNCHANGED notMsgVars

\* ------------------------------------------------------- remove_reaction
UnreactRead(r, m, em) ==
    LET u == ReqUser(r) IN
    /\ rreq[r].pc = "idle"
    /\ IF m \in DOMAIN messages
       THEN /\ rreq' = [rreq EXCEPT ![r] =
                   [op |-> "unreact", pc |-> "scan", user |-> u, msg |-> m,
                    emoji |-> em, local |-> messages[m].reactions,
                    had |-> FALSE, removed |-> None]]
            /\ UNCHANGED resp
       ELSE /\ resp' = "404"
            /\ UNCHANGED rreq
    /\ UNCHANGED <<messages, events>>
    /\ UNCHANGED notMsgVars

UnreactWrite(r) ==
    LET q == rreq[r]
        nl == IF q.emoji \in DOMAIN q.local /\ q.user \in q.local[q.emoji]
              THEN DropFromBucket(q.local, q.emoji, q.user)
              ELSE q.local
    IN
    /\ q.op = "unreact" /\ q.pc = "scan"
    /\ messages' = [messages EXCEPT ![q.msg].reactions = nl]
    /\ rreq' = [rreq EXCEPT ![r].local = nl, ![r].pc = "written"]
    /\ UNCHANGED <<events, resp>>
    /\ UNCHANGED notMsgVars

UnreactEmit(r) ==
    LET q == rreq[r] IN
    /\ q.op = "unreact" /\ q.pc = "written"
    /\ Len(events) < MaxEvents
    /\ events' = Append(events,
           ReactionEvent(messages[q.msg].chat_id, q.msg, q.emoji, q.user, "remove"))
    /\ rreq' = [rreq EXCEPT ![r] = IdleReq]
    /\ resp' = "removed"
    /\ UNCHANGED messages
    /\ UNCHANGED notMsgVars

\* ============================================== read, edit and delete
StatusEvent(chat, m, u) ==
    [kind |-> "message_status", chat |-> chat, msg |-> m, user |-> u,
     status |-> "read"]

MReq(op, pc, u, m, local) ==
    [op |-> op, pc |-> pc, user |-> u, msg |-> m, emoji |-> None,
     local |-> local, had |-> FALSE, removed |-> None]

\* the contents a client may put in an edit
Contents == {"edited once"}

\* ---------------------------------------------------------- mark_as_read
\* message = await get_message_by_id(message_id); the actor is appended to
\* the list read, unless it is in it already
MarkRead(r, m) ==
    LET u == ReqUser(r) IN
    /\ rreq[r].pc = "idle"
    /\ IF m \notin DOMAIN messages
       THEN /\ resp' = "404"
            /\ UNCHANGED rreq
       ELSE IF u \in messages[m].read_by
       THEN /\ resp' = "ok"
            /\ UNCHANGED rreq
       ELSE /\ rreq' = [rreq EXCEPT ![r] =
                   MReq("mark_as_read", "appended", u, m,
                        messages[m].read_by \cup {u})]
            /\ UNCHANGED resp
    /\ UNCHANGED <<messages, events>>
    /\ UNCHANGED notMsgVars

\* await update_message(message_id, {'read_by': read_by, 'status': 'read'})
MarkWrite(r) ==
    LET q == rreq[r] IN
    /\ q.op = "mark_as_read" /\ q.pc = "appended"
    /\ messages' = [messages EXCEPT ![q.msg].read_by = q.local]
    /\ rreq' = [rreq EXCEPT ![r].pc = "written"]
    /\ UNCHANGED <<events, resp>>
    /\ UNCHANGED notMsgVars

\* await socket_manager.update_message_status(chat_id, message_id, 'read', user):
\* sio.emit takes the event, or raises and update_message_status logs the
\* error and returns
MarkEmit(r) ==
    LET q == rreq[r] IN
    /\ q.op = "mark_as_read" /\ q.pc = "written"
    /\ \/ /\ Len(events) < MaxEvents
          /\ events' = Append(events,
                              StatusEvent(messages[q.msg].chat_id, q.msg, q.user))
       \/ UNCHANGED events
    /\ rreq' = [rreq EXCEPT ![r] = IdleReq]
    /\ resp' = "ok"
    /\ UNCHANGED messages
    /\ UNCHANGED notMsgVars

\* ---------------------------------------------------------- edit_message
TooOld(created_at) == now - created_at > EditWindow

\* get_message_by_id, the sender check and the age check
EditRead(r, m, content) ==
    LET u == ReqUser(r) IN
    /\ rreq[r].pc = "idle"
    /\ IF m \notin DOMAIN messages
       THEN /\ resp' = "404"
            /\ UNCHANGED rreq
       ELSE IF messages[m].sender_id # u
       THEN /\ resp' = "403"
            /\ UNCHANGED rreq
       ELSE IF TooOld(messages[m].created_at)
       THEN /\ resp' = "400:too_old"
            /\ UNCHANGED rreq
       ELSE /\ rreq' = [rreq EXCEPT ![r] =
                   MReq("edit_message", "checked", u, m, content)]
            /\ UNCHANGED resp
    /\ UNCHANGED <<messages, events>>
    /\ UNCHANGED notMsgVars

\* await update_message(message_id, {'content': content, 'edited': True, ...})
EditWrite(r) ==
    LET q == rreq[r] IN
    /\ q.op = "edit_message" /\ q.pc = "checked"
    /\ messages' = [messages EXCEPT ![q.msg].content = q.local,
                                    ![q.msg].edited = TRUE]
    /\ rreq' = [rreq EXCEPT ![r].pc = "written"]
    /\ UNCHANGED <<events, resp>>
    /\ UNCHANGED notMsgVars

\* socket_manager.broadcast_message_edited(...): SocketManager has no such
\* method, the attribute lookup raises and the request ends as a server error
EditEmit(r) ==
    LET q == rreq[r] IN
    /\ q.op = "edit_message" /\ q.pc = "written"
    /\ rreq' = [rreq EXCEPT ![r] = IdleReq]
    /\ resp' = "500"
    /\ UNCHANGED <<messages, events>>
    /\ UNCHANGED notMsgVars

\* -------------------------------------------------------- delete_message
\* get_message_by_id and, for everyone, the sender check; for the actor only,
\* the actor is appended to the deleted_for list read unless it is in it
DeleteRead(r, m, for_everyone) ==
    LET u == ReqUser(r) IN
    /\ rreq[r].pc = "idle"
    /\ IF m \notin DOMAIN messages
       THEN /\ resp' = "404"
            /\ UNCHANGED rreq
       ELSE IF for_everyone
       THEN IF messages[m].sender_id # u
            THEN /\ resp' = "403"
                 /\ UNCHANGED rreq
            ELSE /\ rreq' = [rreq EXCEPT ![r] =
                        MReq("delete_message", "everyone", u, m, {})]
                 /\ UNCHANGED resp
       ELSE IF u \in messages[m].deleted_for
       THEN /\ resp' = "ok"
            /\ UNCHANGED rreq
       ELSE /\ rreq' = [rreq EXCEPT ![r] =
                   MReq("delete_message", "me", u, m,
                        messages[m].deleted_for \cup {u})]
            /\ UNCHANGED resp
    /\ UNCHANGED <<messages, events>>
    /\ UNCHANGED notMsgVars

\* update_message(message_id, {'deleted_for': deleted_for}), or
\* update_message(message_id, {'deleted': True, 'content': ...})
DeleteWrite(r) ==
    LET q == rreq[r] IN
    /\ q.op = "delete_message"
    /\ \/ /\ q.pc = "me"
          /\ messages' = [messages EXCEPT ![q.msg].deleted_for = q.local]
          /\ rreq' = [rreq EXCEPT ![r] = IdleReq]
          /\ resp' = "ok"
       \/ /\ q.pc = "everyone"
          /\ messages' = [messages EXCEPT ![q.msg].deleted = TRUE,
                                          ![q.msg].content = WasDeleted]
          /\ rreq' = [rreq EXCEPT ![r].pc = "written"]
          /\ UNCHANGED resp
    /\ UNCHANGED events
    /\ UNCHANGED notMsgVars

\* socket_manager.broadcast_message_deleted(...): SocketManager has no such
\* method, the attribute lookup raises and the request ends as a server error
DeleteEmit(r) ==
    LET q == rreq[r] IN
    /\ q.op = "delete_message" /\ q.pc = "written"
    /\ rreq' = [rreq EXCEPT ![r] = IdleReq]
    /\ resp' = "500"
    /\ UNCHANGED <<messages, events>>
    /\ UNCHANGED notMsgVars

\* an hour passes
Tick ==
    /\ now < MaxNow
    /\ now' = now + 1
    /\ UNCHANGED <<msgVars, resp, chatVars, socialVars, sockVars>>

\* ============================================================ connections
Sids == {"s1", "s2"}
RoomIds == {"c1"}
\* what a client may present as its token: a valid token of an identity, or
\* one that does not decode
Tokens == {"u1", "u2", "bad"}

\* u1 and u2 have each other as contact
Contacts(u) == IF u = "u1" THEN {"u2"} ELSE IF u = "u2" THEN {"u1"} ELSE {}

Profile(u, online, stamp) ==
    [is_online |-> online, last_seen |-> stamp, contacts |-> Contacts(u)]

IdleSReq == [pc |-> "idle", user |-> None]

Emit(event, to, u, flag) == [event |-> event, to |-> to, user |-> u, flag |-> flag]
Out(signal, s, emits) == [signal |-> signal, sid |-> s, emits |-> emits]

\* nobody connected, every identity offline and never seen
NoSockets ==
    /\ status = [s \in Sids |-> "new"]
    /\ user_connections = [u \in Users |-> {}]
    /\ profiles = [u \in Users |-> Profile(u, FALSE, None)]
    /\ areq = [s \in Sids |-> IdleSReq]
    /\ dreq = [s \in Sids |-> IdleSReq]
    /\ rooms = [s \in Sids |-> {}]
    /\ chat_presence = [c \in RoomIds |-> {}]
    /\ typing_users = [c \in RoomIds |-> {}]
    /\ out = Out(None, None, {})

\* the identities whose connection set holds the sid
Identity(s) == {u \in Users : s \in user_connections[u]}

\* emit(..., room=sid) reaches the sid while its connection is open
ToSid(event, s, u, flag) ==
    IF status[s] = "open" THEN {Emit(event, s, u, flag)} ELSE {}

\* emit(..., room=room_id, skip_sid=sid)
ToRoom(event, room, skip, u, flag) ==
    {Emit(event, x, u, flag) : x \in {y \in Sids \ skip : room \in rooms[y]}}

\* send_message_to_user: one emit per sid of the user's connection set
send_message_to_user(k, event, u, flag) ==
    UNION {ToSid(event, x, u, flag) : x \in user_connections[k]}

\* broadcast_user_status: send_message_to_user for each contact of the user
broadcast_user_status(u, flag) ==
    UNION {send_message_to_user(k, "user_status", u, flag) : k \in profiles[u].contacts}

\* `user_id not in self.user_connections` once the sid is out of the set
LastConnection_any(conns, u) == TRUE

LastConnection(conns, u) == conns[u] = {}

\* connect: the transport opens the connection, the handler greets it
connect(s) ==
    /\ status[s] = "new"
    /\ status' = [status EXCEPT ![s] = "open"]
    /\ out' = Out("connect", s, {Emit("connected", s, None, FALSE)})
    /\ UNCHANGED <<user_connections, profiles, areq, dreq, rooms, chat_presence,
                   typing_users>>
    /\ UNCHANGED notSockVars

\* authenticate: the token is decoded, then get_user_by_id is awaited
AuthStart(s, token) ==
    /\ status[s] = "open"
    /\ areq[s].pc = "idle"
    /\ IF token \notin Users
       THEN /\ out' = Out("authenticate", s, ToSid("authentication_error", s, None, FALSE))
            /\ areq' = areq
       ELSE /\ areq' = [areq EXCEPT ![s] = [pc |-> "lookup", user |-> token]]
            /\ out' = Out("authenticate", s, {})
    /\ UNCHANGED <<status, user_connections, profiles, dreq, rooms, chat_presence,
                   typing_users>>
    /\ UNCHANGED notSockVars

\* authenticate: the user is found, the sid enters its connection set
AuthRegister(s) ==
    LET u == areq[s].user IN
    /\ areq[s].pc = "lookup"
    /\ user_connections' = [user_connections EXCEPT ![u] = @ \cup {s}]
    /\ areq' = [areq EXCEPT ![s].pc = "registered"]
    /\ out' = Out("authenticate", s, {})
    /\ UNCHANGED <<status, profiles, dreq, rooms, chat_presence, typing_users>>
    /\ UNCHANGED notSockVars

\* authenticate: update_user(is_online True, last_seen now)
AuthWrite(s) ==
    LET u == areq[s].user IN
    /\ areq[s].pc = "registered"
    /\ profiles' = [profiles EXCEPT ![u] = Profile(u, TRUE, "authenticate")]
    /\ areq' = [areq EXCEPT ![s].pc = "written"]
    /\ out' = Out("authenticate", s, {})
    /\ UNCHANGED <<status, user_connections, dreq, rooms, chat_presence,
                   typing_users>>
    /\ UNCHANGED notSockVars

\* authenticate: 'authenticated' to the sid, then the status of the user to
\* its contacts
AuthNotify(s) ==
    LET u == areq[s].user IN
    /\ areq[s].pc = "written"
    /\ areq' = [areq EXCEPT ![s] = IdleSReq]
    /\ out' = Out("authenticate", s,
                  ToSid("authenticated", s, u, TRUE) \cup broadcast_user_status(u, TRUE))
    /\ UNCHANGED <<status, user_connections, profiles, dreq, rooms, chat_presence,
                   typing_users>>
    /\ UNCHANGED notSockVars

\* disconnect, up to its first await: the sid leaves the connection set of the
\* first identity found holding it (any of them here: the order is the order
\* of insertion in the dict); the write follows only if no connection of that
\* identity is left.  The Socket.IO server takes a closed sid out of the rooms
\* it had entered; chat_presence and typing_users are SocketManager's own
\* dicts and the handler does not touch them
DiscRemove(s) ==
    /\ status[s] = "open"
    /\ status' = [status EXCEPT ![s] = "closed"]
    /\ out' = Out("disconnect", s, {})
    /\ rooms' = [rooms EXCEPT ![s] = {}]
    /\ IF Identity(s) = {}
       THEN UNCHANGED <<user_connections, dreq>>
       ELSE \E u \in Identity(s) :
              /\ user_connections' = [user_connections EXCEPT ![u] = @ \ {s}]
              /\ dreq' = IF LastConnection(user_connections', u)
                         THEN [dreq EXCEPT ![s] = [pc |-> "write", user |-> u]]
                         ELSE dreq
    /\ UNCHANGED <<profiles, areq, chat_presence, typing_users>>
    /\ UNCHANGED notSockVars

\* disconnect: update_user(is_online False, last_seen now)
DiscWrite(s) ==
    LET u == dreq[s].user IN
    /\ dreq[s].pc = "write"
    /\ profiles' = [profiles EXCEPT ![u] = Profile(u, FALSE, "disconnect")]
    /\ dreq' = [dreq EXCEPT ![s].pc = "notify"]
    /\ out' = Out("disconnect", s, {})
    /\ UNCHANGED <<status, user_connections, areq, rooms, chat_presence,
                   typing_users>>
    /\ UNCHANGED notSockVars

\* disconnect: broadcast_user_status(user_id, False)
DiscNotify(s) ==
    LET u == dreq[s].user IN
    /\ dreq[s].pc = "notify"
    /\ dreq' = [dreq EXCEPT ![s] = IdleSReq]
    /\ out' = Out("disconnect", s, broadcast_user_status(u, FALSE))
    /\ UNCHANGED <<status, user_connections, profiles, areq, rooms, chat_presence,
                   typing_users>>
    /\ UNCHANGED notSockVars

\* ------------------------------------------------------- room signals
\* the first identity found holding the sid
FoundUser(s) == IF Identity(s) = {} THEN None ELSE CHOOSE u \in Identity(s) : TRUE

SidsIn(room) == {y \in Sids : room \in rooms[y]}

\* what a signal's payload may carry in a field: a value or nothing
Maybe(S) == S \cup {None}

\* join_room
join_room(s, room) ==
    LET u == FoundUser(s) IN
    /\ status[s] = "open"
    /\ IF room = None \/ u = None
       THEN /\ out' = Out("join_room", s, ToSid("error", s, None, FALSE))
            /\ rooms' = rooms
       ELSE /\ rooms' = [rooms EXCEPT ![s] = @ \cup {room}]
            /\ out' = Out("join_room", s,
                          ToSid("room_joined", s, u, FALSE)
                              \cup {Emit("user_joined_room", x, u, FALSE) :
                                       x \in SidsIn(room) \ {s}})
    /\ UNCHANGED <<status, user_connections, profiles, areq, dreq, chat_presence,
                   typing_users>>
    /\ UNCHANGED notSockVars

\* send_message (with a content): nothing is stored
send_message_signal(s, room) ==
    LET u == FoundUser(s) IN
    /\ status[s] = "open"
    /\ out' = Out("send_message", s,
                  IF room = None \/ u = None THEN ToSid("error", s, None, FALSE)
                  ELSE {Emit("new_message", x, u, FALSE) : x \in SidsIn(room)})
    /\ UNCHANGED <<status, user_connections, profiles, areq, dreq, rooms,
                   chat_presence, typing_users>>
    /\ UNCHANGED notSockVars

\* join_chat: chat_id and user_id are both taken from the payload
join_chat_signal(s, chat, u) ==
    /\ status[s] = "open"
    /\ IF chat = None \/ u = None
       THEN /\ out' = Out("join_chat", s, {})
            /\ UNCHANGED <<rooms, chat_presence>>
       ELSE /\ rooms' = [rooms EXCEPT ![s] = @ \cup {chat}]
            /\ chat_presence' = [chat_presence EXCEPT ![chat] = @ \cup {u}]
            /\ out' = Out("join_chat", s,
                          {Emit("user_joined", x, u, FALSE) : x \in SidsIn(chat) \ {s}})
    /\ UNCHANGED <<status, user_connections, profiles, areq, dreq, typing_users>>
    /\ UNCHANGED notSockVars

\* leave_chat: chat_id and user_id are both taken from the payload
leave_chat_signal(s, chat, u) ==
    /\ status[s] = "open"
    /\ out' = Out("leave_chat", s, {})
    /\ IF chat = None \/ u = None
       THEN UNCHANGED <<rooms, chat_presence, typing_users>>
       ELSE /\ rooms' = [rooms EXCEPT ![s] = @ \ {chat}]
            /\ chat_presence' = [chat_presence EXCEPT ![chat] = @ \ {u}]
            /\ typing_users' = [typing_users EXCEPT ![chat] = @ \ {u}]
    /\ UNCHANGED <<status, user_connections, profiles, areq, dreq>>
    /\ UNCHANGED notSockVars

\* typing: chat_id, user_id and is_typing are all taken from the payload
typing(s, chat, u, is_typing) ==
    /\ status[s] = "open"
    /\ IF chat = None \/ u = None
       THEN /\ out' = Out("typing", s, {})
            /\ typing_users' = typing_users
       ELSE /\ typing_users' = [typing_users EXCEPT ![chat] =
                                   IF is_typing THEN @ \cup {u} ELSE @ \ {u}]
            /\ out' = Out("typing", s,
                          {Emit("user_typing", x, u, is_typing) :
                              x \in SidsIn(chat) \ {s}})
    /\ UNCHANGED <<status, user_connections, profiles, areq, dreq, rooms,
                   chat_presence>>
    /\ UNCHANGED notSockVars

\* ================================================ friends and blocks
\* a friends request in flight: the handler, where it stands, the user or the
\* friend request it names
IdleFReq == [op |-> None, pc |-> "idle", target |-> None]

\* nobody blocked, no friend request, no request in flight
NoSocial ==
    /\ blocked_users = [u \in Users |-> {}]
    /\ blocks = {}
    /\ friend_requests = EmptyMap
    /\ freq = [q \in Reqs |-> IdleFReq]

\* the identities the friends handlers are exercised between, and the pool of
\* generated friend request ids
FriendIds == {"u1", "u2"}
RequestIds == {"f1", "f2"}

FriendRequest(from, to) ==
    [sender_id |-> from, receiver_id |-> to, status |-> "pending"]

\* ---------------------------------- database_enhanced.py, permissions.py
\* db.blocks.find_one({blocker_id, blocked_id}) is not None
is_blocked(blocker, blocked) == <<blocker, blocked>> \in blocks

is_blocked_by_any(a, b) == is_blocked(a, b) \/ is_blocked(b, a)

check_can_message_user(a, b) ==
    IF is_blocked_by_any(a, b) THEN "403"
    ELSE IF ~(b \in friends[a]) THEN "403"
    ELSE "ok"

\* ------------------------------------------------ backend/routes_friends.py
PendingBetween_none(a, b) == {}

\* find_one({'$or': [{sender, receiver}, {receiver, sender}], status pending})
PendingBetween(a, b) ==
    {f \in DOMAIN friend_requests :
        /\ friend_requests[f].status = "pending"
        /\ {friend_requests[f].sender_id, friend_requests[f].receiver_id} = {a, b}}

FDone(q) == [freq EXCEPT ![q] = IdleFReq]

\* POST /friends/request/{user_id}: the checks up to the pending lookup; the
\* lookup answers with any one pending request between the two, and the
\* refusal says whose it is
SendCheck(q, t) ==
    LET u == ReqUser(q) IN
    /\ freq[q].pc = "idle"
    /\ IF t = u THEN /\ resp' = "400"
                     /\ freq' = freq
       ELSE IF u \in blocked_users[t] THEN /\ resp' = "403"
                                           /\ freq' = freq
       ELSE IF t \in blocked_users[u] \/ t \in friends[u]
       THEN /\ resp' = "400"
            /\ freq' = freq
       ELSE IF PendingBetween(u, t) # {}
       THEN /\ \E f \in PendingBetween(u, t) :
                 resp' = IF friend_requests[f].sender_id = u
                         THEN "400:already_sent" ELSE "400:accept_instead"
            /\ freq' = freq
       ELSE /\ freq' = [freq EXCEPT ![q] =
                           [op |-> "send_friend_request", pc |-> "checked",
                            target |-> t]]
            /\ resp' = resp
    /\ UNCHANGED <<friends, blocked_users, blocks, friend_requests>>
    /\ UNCHANGED notSocialVars

\* send_friend_request: insert_one of the new pending request
SendInsert(q) ==
    /\ freq[q].op = "send_friend_request"
    /\ freq[q].pc = "checked"
    /\ \E f \in RequestIds \ DOMAIN friend_requests :
         friend_requests' =
            [x \in DOMAIN friend_requests \cup {f} |->
                IF x = f THEN FriendRequest(ReqUser(q), freq[q].target)
                ELSE friend_requests[x]]
    /\ freq' = FDone(q)
    /\ resp' = "ok"
    /\ UNCHANGED <<friends, blocked_users, blocks>>
    /\ UNCHANGED notSocialVars

\* POST /friends/request/{request_id}/accept: find_one and the three checks
AcceptRead(q, f) ==
    LET u == ReqUser(q) IN
    /\ freq[q].pc = "idle"
    /\ IF f \notin DOMAIN friend_requests THEN /\ resp' = "404"
                                               /\ freq' = freq
       ELSE IF friend_requests[f].receiver_id # u THEN /\ resp' = "403"
                                                       /\ freq' = freq
       ELSE IF friend_requests[f].status # "pending" THEN /\ resp' = "400"
                                                          /\ freq' = freq
       ELSE /\ freq' = [freq EXCEPT ![q] =
                           [op |-> "accept_friend_request", pc |-> "read",
                            target |-> f]]
            /\ resp' = resp
    /\ UNCHANGED <<friends, blocked_users, blocks, friend_requests>>
    /\ UNCHANGED notSocialVars

\* accept_friend_request: the request becomes accepted
AcceptMark(q) ==
    /\ freq[q].op = "accept_friend_request"
    /\ freq[q].pc = "read"
    /\ friend_requests' = [friend_requests EXCEPT ![freq[q].target].status = "accepted"]
    /\ freq' = [freq EXCEPT ![q].pc = "marked"]
    /\ UNCHANGED <<resp, friends, blocked_users, blocks>>
    /\ UNCHANGED notSocialVars

\* accept_friend_request: $addToSet of the sender to the receiver's friends
AcceptReceiver(q) ==
    LET u == ReqUser(q)
        sender == friend_requests[freq[q].target].sender_id IN
    /\ freq[q].op = "accept_friend_request"
    /\ freq[q].pc = "marked"
    /\ friends' = [friends EXCEPT ![u] = @ \cup {sender}]
    /\ freq' = [freq EXCEPT ![q].pc = "half"]
    /\ UNCHANGED <<resp, blocked_users, blocks, friend_requests>>
    /\ UNCHANGED notSocialVars

\* accept_friend_request: $addToSet of the receiver to the sender's friends
AcceptSender(q) ==
    LET u == ReqUser(q)
        sender == friend_requests[freq[q].target].sender_id IN
    /\ freq[q].op = "accept_friend_request"
    /\ freq[q].pc = "half"
    /\ friends' = [friends EXCEPT ![sender] = @ \cup {u}]
    /\ freq' = FDone(q)
    /\ resp' = "ok"
    /\ UNCHANGED <<blocked_users, blocks, friend_requests>>
    /\ UNCHANGED notSocialVars

\* POST /friends/request/{request_id}/reject
reject_friend_request(u, f) ==
    /\ IF f \notin DOMAIN friend_requests THEN /\ resp' = "404"
                                               /\ friend_requests' = friend_requests
       ELSE IF friend_requests[f].receiver_id # u THEN /\ resp' = "403"
                                                       /\ friend_requests' = friend_requests
       ELSE IF friend_requests[f].status # "pending" THEN /\ resp' = "400"
                                                          /\ friend_requests' = friend_requests
       ELSE /\ friend_requests' = [friend_requests EXCEPT ![f].status = "rejected"]
            /\ resp' = "ok"
    /\ UNCHANGED <<friends, blocked_users, blocks, freq>>
    /\ UNCHANGED notSocialVars

\* POST /friends/block/{user_id}: $addToSet of the target to blocked_users
BlockList(q, t) ==
    LET u == ReqUser(q) IN
    /\ freq[q].pc = "idle"
    /\ IF t = u
       THEN /\ resp' = "400"
            /\ UNCHANGED <<blocked_users, freq>>
       ELSE /\ blocked_users' = [blocked_users EXCEPT ![u] = @ \cup {t}]
            /\ freq' = [freq EXCEPT ![q] =
                           [op |-> "block_user", pc |-> "listed", target |-> t]]
            /\ resp' = resp
    /\ UNCHANGED <<friends, blocks, friend_requests>>
    /\ UNCHANGED notSocialVars

\* block_user: $pull of the target from the blocker's friends
BlockPullOwn(q) ==
    /\ freq[q].op = "block_user"
    /\ freq[q].pc = "listed"
    /\ friends' = [friends EXCEPT ![ReqUser(q)] = @ \ {freq[q].target}]
    /\ freq' = [freq EXCEPT ![q].pc = "pulled"]
    /\ UNCHANGED <<resp, blocked_users, blocks, friend_requests>>
    /\ UNCHANGED notSocialVars

\* block_user: $pull of the blocker from the target's friends
BlockPullOther(q) ==
    /\ freq[q].op = "block_user"
    /\ freq[q].pc = "pulled"
    /\ friends' = [friends EXCEPT ![freq[q].target] = @ \ {ReqUser(q)}]
    /\ freq' = FDone(q)
    /\ resp' = "ok"
    /\ UNCHANGED <<blocked_users, blocks, friend_requests>>
    /\ UNCHANGED notSocialVars

\* POST /friends/unblock/{user_id}
unblock_user(u, t) ==
    /\ blocked_users' = [blocked_users EXCEPT ![u] = @ \ {t}]
    /\ resp' = "ok"
    /\ UNCHANGED <<friends, blocks, friend_requests, freq>>
    /\ UNCHANGED notSocialVars

\* ------------------------------------------------ fixx_me/routes_friends.py
\* POST /friends/block/{user_id} of the enhanced router: create_block, then
\* update_user with an operator document, which update_user puts under $set;
\* the store refuses the $-prefixed field name and the request ends there
block_user_enhanced(u, t) ==
    /\ IF is_blocked(u, t)
       THEN /\ resp' = "400"
            /\ blocks' = blocks
       ELSE /\ blocks' = blocks \cup {<<u, t>>}
            /\ resp' = "500"
    /\ UNCHANGED <<friends, blocked_users, friend_requests, freq>>
    /\ UNCHANGED notSocialVars

\* DELETE /friends/unblock/{user_id} of the enhanced router: delete_block, then
\* the same update_user call
unblock_user_enhanced(u, t) ==
    /\ IF ~is_blocked(u, t)
       THEN /\ resp' = "400"
            /\ blocks' = blocks
       ELSE /\ blocks' = blocks \ {<<u, t>>}
            /\ resp' = "500"
    /\ UNCHANGED <<friends, blocked_users, friend_requests, freq>>
    /\ UNCHANGED notSocialVars

\* ============================================================ chats
\* A chat document (routes_chat_enhanced.create_new_chat): chat_type, owner_id,
\* members (documents user_id / role / admin_rights / restrictions),
\* subscribers, admins,
\* banned_users (the user_id of each ban document), is_public (direct chats
\* are stored without the key), default_permissions.  member_count and
\* subscriber_count are denormalised counters no check reads; they are left out.
\* admin_rights and restrictions are optional dicts: has tells a stored
\* (truthy) dict from None; permissions is the list under the key
\* "permissions" of an admin_rights dict, flags the boolean keys of a
\* restrictions dict (a ChatPermissions document, or part of one).
NoRights == [has |-> FALSE, permissions |-> {}, flags |-> EmptyMap]
Rights(perms) == [has |-> TRUE, permissions |-> perms, flags |-> EmptyMap]
Restrictions(flags) == [has |-> TRUE, permissions |-> {}, flags |-> flags]

Member(u, role) ==
    [user_id |-> u, role |-> role, admin_rights |-> NoRights,
     restrictions |-> NoRights]

\* permissions.get_default_admin_permissions / get_channel_default_permissions
get_default_admin_permissions ==
    {"can_delete_messages", "can_ban_users", "can_invite_users", "can_pin_messages"}
get_channel_default_permissions ==
    {"can_post", "can_edit_messages", "can_delete_messages"}

\* models_enhanced.ChatPermissions()
ChatPermissions ==
    [can_send_messages |-> TRUE, can_send_media |-> TRUE, can_invite_users |-> FALSE]

\* a chat request in flight: the handler, where it stands, the chat id and the
\* target of the request, whether the chat document it read has the target
\* among its participants, and the reply_to of a message being sent
IdleCReq == [op |-> None, pc |-> "idle", chat |-> None, target |-> None,
             known |-> FALSE, reply_to |-> None]

MemberIds(chat) == {m.user_id : m \in chat.members}
BannedIds(chat) == chat.banned_users

\* the persisted participants of a chat: subscribers of a channel, members of
\* a group or direct chat
Participants(chat) ==
    IF chat.chat_type = "channel" THEN chat.subscribers ELSE MemberIds(chat)

\* ---------------------------------------------------- database_enhanced.py
\* $inc {field: d}, for the chat documents whose counters are followed
Inc(chat, field, d) ==
    IF field \in DOMAIN chat THEN [chat EXCEPT ![field] = @ + d] ELSE chat

\* banned_user_data of ban_user
BanRecord(t, by, at) == [user_id |-> t, banned_by |-> by, banned_at |-> at]

\* $pull {"members": {"user_id": user_id}}
remove_chat_member(chat, u) ==
    Inc([chat EXCEPT !.members = {m \in @ : m.user_id # u}], "member_count", -1)

\* $pull {"subscribers": user_id}
remove_channel_subscriber(chat, u) ==
    Inc([chat EXCEPT !.subscribers = @ \ {u}], "subscriber_count", -1)

\* $addToSet {"members": member_data}
add_chat_member(chat, member) ==
    Inc([chat EXCEPT !.members = @ \cup {member}], "member_count", 1)

\* $addToSet {"subscribers": user_id}
add_channel_subscriber(chat, u) ==
    Inc([chat EXCEPT !.subscribers = @ \cup {u}], "subscriber_count", 1)

\* $addToSet {"banned_users": banned_user_data}: the ids of the banned, and
\* the documents themselves in the chats that keep them
add_banned(chat, record) ==
    LET listed == [chat EXCEPT !.banned_users = @ \cup {record.user_id}] IN
    IF "ban_records" \in DOMAIN chat
    THEN [listed EXCEPT !.ban_records = @ \cup {record}]
    ELSE listed

unban_user_from_chat_rejoin(chat, u) ==
    add_chat_member([chat EXCEPT !.banned_users = @ \ {u}], Member(u, "member"))

\* $pull {"banned_users": {"user_id": user_id}}
unban_user_from_chat(chat, u) ==
    [chat EXCEPT !.banned_users = @ \ {u}]

\* find_one({"id": chat_id, "banned_users.user_id": user_id}) is not None
is_user_banned(c, u) ==
    c \in DOMAIN chats /\ u \in BannedIds(chats[c])

NoRole == [role |-> None, permissions |-> NoRights]

\* the first member document of the user; the owner is answered before the
\* member list is read
get_member_role(c, u) ==
    IF c \notin DOMAIN chats THEN NoRole
    ELSE IF chats[c].owner_id = u
         THEN [role |-> "owner", permissions |-> Rights({"all"})]
    ELSE IF u \in MemberIds(chats[c])
         THEN LET m == CHOOSE x \in chats[c].members : x.user_id = u
              IN [role |-> m.role,
                  permissions |-> IF m.admin_rights.has THEN m.admin_rights
                                  ELSE m.restrictions]
    ELSE NoRole

\* members.$.role / members.$.admin_rights of the matched member document;
\* admin_rights is written only when given (promotion)
SetMemberRole(chat, u, role, rights) ==
    IF u \notin MemberIds(chat) THEN chat
    ELSE LET m == CHOOSE x \in chat.members : x.user_id = u
             nm == [m EXCEPT !.role = role,
                             !.admin_rights = IF rights.has THEN rights ELSE @]
         IN [chat EXCEPT !.members = (@ \ {m}) \cup {nm}]

update_member_role(chat, u, role, rights) ==
    SetMemberRole([chat EXCEPT !.admins = IF rights.has THEN @ \cup {u}
                                                        ELSE @ \ {u}],
                  u, role, rights)

\* ----------------------------------------------------------- permissions.py
\* Each check answers "ok" or the status (and reason) of the exception raised.
check_are_friends_any(a, b) == TRUE

check_are_friends(a, b) == b \in friends[a]

\* PermissionError when either has blocked the other, PermissionError when
\* the target is in the friends of the sender, True otherwise
check_can_send_friend_request(a, b) ==
    IF is_blocked_by_any(a, b) THEN "403"
    ELSE IF check_are_friends(a, b) THEN "403"
    ELSE "ok"

check_chat_exists(c) == IF c \in DOMAIN chats THEN "ok" ELSE "404"

check_user_in_chat_masked(c, u) ==
    IF c \notin DOMAIN chats THEN "404"
    ELSE IF u \notin Participants(chats[c]) THEN "404" ELSE "ok"

check_user_in_chat(c, u) ==
    IF c \notin DOMAIN chats THEN "404"
    ELSE IF chats[c].chat_type = "channel"
         THEN IF u \notin chats[c].subscribers THEN "403:not_subscribed" ELSE "ok"
    ELSE IF u \notin MemberIds(chats[c]) THEN "403:not_member" ELSE "ok"

check_not_banned(c, u) == IF is_user_banned(c, u) THEN "403" ELSE "ok"

check_is_owner(c, u) ==
    IF c \notin DOMAIN chats THEN "404"
    ELSE IF chats[c].owner_id # u THEN "403" ELSE "ok"

check_has_permission(c, u, permission) ==
    IF c \notin DOMAIN chats THEN "404"
    ELSE IF chats[c].owner_id = u THEN "ok"
    ELSE LET role_data == get_member_role(c, u) IN
         IF role_data.role # "admin" THEN "403"
         ELSE IF ~role_data.permissions.has THEN "403"
         ELSE IF permission \notin role_data.permissions.permissions
              THEN "403"
         ELSE "ok"

\* the owner, or an identity of the admins list; the role of a listed admin
\* is read from its member document, which an admin of a channel may not have
check_is_admin(c, u) ==
    IF c \notin DOMAIN chats THEN "404"
    ELSE IF chats[c].owner_id = u THEN "ok"
    ELSE IF u \in chats[c].admins
         THEN IF get_member_role(c, u) = NoRole THEN "500" ELSE "ok"
    ELSE "403"

\* membership, then the ban list, then by chat type; in a group the
\* permissions of get_member_role decide when they are a truthy value, and
\* the default permissions of the chat are read only when they are not
check_can_send_message(c, u) ==
    LET in_chat == check_user_in_chat(c, u) IN
    IF in_chat # "ok" THEN in_chat
    ELSE IF check_not_banned(c, u) # "ok" THEN "403:banned"
    ELSE IF chats[c].chat_type = "direct" THEN "ok"
    ELSE IF chats[c].chat_type = "channel"
         THEN IF check_is_admin(c, u) = "403" THEN "403:not_admin"
              ELSE check_is_admin(c, u)
    ELSE LET role_data == get_member_role(c, u) IN
         IF role_data.permissions.has
         THEN IF /\ "can_send_messages" \in DOMAIN role_data.permissions.flags
                 /\ ~role_data.permissions.flags["can_send_messages"]
              THEN "403:restricted"
              ELSE "ok"
         ELSE IF ~chats[c].default_permissions.can_send_messages
              THEN "403:disabled"
         ELSE "ok"

check_can_add_members(c, u) ==
    LET in_chat == check_user_in_chat(c, u) IN
    IF in_chat # "ok" THEN in_chat
    ELSE IF chats[c].chat_type = "direct" THEN "403"
    ELSE IF chats[c].chat_type = "channel"
         THEN check_has_permission(c, u, "can_invite_users")
    ELSE IF get_member_role(c, u).role = "admin"
         THEN check_has_permission(c, u, "can_invite_users")
    ELSE IF ~chats[c].default_permissions.can_invite_users
         THEN "403"
    ELSE "ok"

check_can_ban_users(c, banner, target) ==
    IF c \notin DOMAIN chats THEN "404"
    ELSE IF target = chats[c].owner_id THEN "403"
    ELSE IF banner = chats[c].owner_id THEN "ok"
    ELSE IF get_member_role(c, banner).role # "admin" THEN "403"
    ELSE IF get_member_role(c, target).role = "admin" THEN "403"
    ELSE check_has_permission(c, banner, "can_ban_users")

check_can_remove_member(c, remover, target) ==
    IF c \notin DOMAIN chats THEN "404"
    ELSE IF target = chats[c].owner_id THEN "403"
    ELSE IF remover = chats[c].owner_id THEN "ok"
    ELSE IF get_member_role(c, remover).role # "admin" THEN "403"
    ELSE IF get_member_role(c, target).role = "admin" THEN "403"
    ELSE check_has_permission(c, remover, "can_ban_users")

check_can_change_info(c, u) == check_has_permission(c, u, "can_change_info")

check_can_pin_messages(c, u) == check_has_permission(c, u, "can_pin_messages")

check_can_promote_to_admin(c, u) == check_is_owner(c, u)

\* ------------------------------------------------ routes_chat_enhanced.py
\* ids a request may name: the pool of generated ids and one that is never
\* generated
FreshIds == {"c1"}
\* the identities that found groups and channels
Founders == {"u1"}
AbsentId == "c9"
NamedIds == FreshIds \cup {AbsentId}

DirectChat(u, other) ==
    [chat_type |-> "direct", owner_id |-> u,
     members |-> {Member(u, "member"), Member(other, "member")},
     subscribers |-> {}, admins |-> {}, banned_users |-> {},
     is_public |-> "absent", default_permissions |-> ChatPermissions]

GroupChat(u, others, public) ==
    [chat_type |-> "group", owner_id |-> u,
     members |-> {Member(u, "owner")} \cup {Member(o, "member") : o \in others \ {u}},
     subscribers |-> {}, admins |-> {}, banned_users |-> {},
     is_public |-> IF public THEN "yes" ELSE "no",
     default_permissions |-> ChatPermissions]

ChannelChat(u, public) ==
    [chat_type |-> "channel", owner_id |-> u,
     members |-> {}, subscribers |-> {u}, admins |-> {}, banned_users |-> {},
     is_public |-> IF public THEN "yes" ELSE "no",
     default_permissions |-> ChatPermissions]

\* find_one({'chat_type': 'direct', 'members.user_id': {'$all': [u, other]}})
ExistingDirect(u, other) ==
    {c \in DOMAIN chats : chats[c].chat_type = "direct"
                          /\ {u, other} \subseteq MemberIds(chats[c])}

Store(c, doc) == [x \in DOMAIN chats \cup {c} |-> IF x = c THEN doc ELSE chats[x]]

\* POST /chats with chat_type direct
create_direct_chat(u, participant_ids) ==
    /\ IF Cardinality(participant_ids) # 1
       THEN /\ resp' = "400"
            /\ chats' = chats
       ELSE LET other == CHOOSE o \in participant_ids : TRUE IN
            IF ~check_are_friends(u, other)
            THEN /\ resp' = "403"
                 /\ chats' = chats
            ELSE IF ExistingDirect(u, other) # {}
            THEN /\ resp' = "ok"
                 /\ chats' = chats
            ELSE \E c \in FreshIds \ DOMAIN chats :
                 /\ chats' = Store(c, DirectChat(u, other))
                 /\ resp' = "ok"
    /\ UNCHANGED creq
    /\ UNCHANGED notChatVars

\* POST /chats with chat_type group (a name is given)
create_group_chat(u, participant_ids, public) ==
    /\ \E c \in FreshIds \ DOMAIN chats :
         /\ chats' = Store(c, GroupChat(u, participant_ids, public))
         /\ resp' = "ok"
    /\ UNCHANGED creq
    /\ UNCHANGED notChatVars

\* POST /chats with chat_type channel (a name is given)
create_channel_chat(u, public) ==
    /\ \E c \in FreshIds \ DOMAIN chats :
         /\ chats' = Store(c, ChannelChat(u, public))
         /\ resp' = "ok"
    /\ UNCHANGED creq
    /\ UNCHANGED notChatVars

\* GET /chats/{chat_id}
get_chat(u, c) ==
    /\ resp' = check_user_in_chat(c, u)
    /\ UNCHANGED chatVars
    /\ UNCHANGED notChatVars

\* POST /chats/{chat_id}/leave
leave_chat(u, c) ==
    LET gate == check_user_in_chat(c, u) IN
    /\ IF gate # "ok"
       THEN /\ resp' = gate
            /\ chats' = chats
       ELSE IF chats[c].chat_type = "direct"
       THEN /\ resp' = "400"
            /\ chats' = chats
       ELSE IF chats[c].owner_id = u
       THEN /\ resp' = "403"
            /\ chats' = chats
       ELSE /\ chats' = [chats EXCEPT ![c] =
                           IF @.chat_type = "channel"
                           THEN remove_channel_subscriber(@, u)
                           ELSE remove_chat_member(@, u)]
            /\ resp' = "ok"
    /\ UNCHANGED creq
    /\ UNCHANGED notChatVars

Finish(q) == [creq EXCEPT ![q] = IdleCReq]

\* POST /chats/{chat_id}/join: check_chat_exists and the is_public test
JoinRead(q, c) ==
    LET u == ReqUser(q) IN
    /\ creq[q].pc = "idle"
    /\ IF check_chat_exists(c) # "ok"
       THEN /\ resp' = "404"
            /\ creq' = creq
       ELSE IF chats[c].is_public = "absent"
       THEN /\ resp' = "500"
            /\ creq' = creq
       ELSE IF chats[c].is_public = "no"
       THEN /\ resp' = "403"
            /\ creq' = creq
       ELSE /\ creq' = [creq EXCEPT ![q] =
                           [op |-> "join_chat", pc |-> "read", chat |-> c,
                            target |-> u, known |-> u \in Participants(chats[c]),
                            reply_to |-> None]]
            /\ resp' = resp
    /\ UNCHANGED chats
    /\ UNCHANGED notChatVars

\* join_chat: check_not_banned, then the membership test on the document read
JoinNotBanned(q) ==
    LET u == ReqUser(q)
        c == creq[q].chat IN
    /\ creq[q].op = "join_chat"
    /\ creq[q].pc = "read"
    /\ IF check_not_banned(c, u) # "ok"
       THEN /\ resp' = "403"
            /\ creq' = Finish(q)
       ELSE IF creq[q].known
       THEN /\ resp' = "400"
            /\ creq' = Finish(q)
       ELSE /\ creq' = [creq EXCEPT ![q].pc = "adding"]
            /\ resp' = resp
    /\ UNCHANGED chats
    /\ UNCHANGED notChatVars

\* join_chat: add_channel_subscriber / add_chat_member
JoinAdd(q) ==
    LET u == ReqUser(q)
        c == creq[q].chat IN
    /\ creq[q].op = "join_chat"
    /\ creq[q].pc = "adding"
    /\ chats' = [chats EXCEPT ![c] =
                    IF @.chat_type = "channel"
                    THEN add_channel_subscriber(@, u)
                    ELSE add_chat_member(@, Member(u, "member"))]
    /\ creq' = Finish(q)
    /\ resp' = "ok"
    /\ UNCHANGED notChatVars

\* POST /chats/{chat_id}/invite with one user id: check_can_add_members and
\* the read of the chat document
InviteCheck(q, c, t) ==
    LET u == ReqUser(q)
        gate == check_can_add_members(c, u) IN
    /\ creq[q].pc = "idle"
    /\ IF gate # "ok"
       THEN /\ resp' = gate
            /\ creq' = creq
       ELSE /\ creq' = [creq EXCEPT ![q] =
                           [op |-> "invite_users", pc |-> "read", chat |-> c,
                            target |-> t, known |-> t \in Participants(chats[c]),
                            reply_to |-> None]]
            /\ resp' = resp
    /\ UNCHANGED chats
    /\ UNCHANGED notChatVars

\* invite_users: is_user_banned, then the membership test on the document read
InviteNotBanned(q) ==
    LET u == ReqUser(q)
        c == creq[q].chat
        t == creq[q].target IN
    /\ creq[q].op = "invite_users"
    /\ creq[q].pc = "read"
    /\ IF is_user_banned(c, t) \/ creq[q].known
       THEN /\ resp' = "ok"
            /\ creq' = Finish(q)
       ELSE /\ creq' = [creq EXCEPT ![q].pc = "adding"]
            /\ resp' = resp
    /\ UNCHANGED chats
    /\ UNCHANGED notChatVars

\* invite_users: add_channel_subscriber / add_chat_member
InviteAdd(q) ==
    LET u == ReqUser(q)
        c == creq[q].chat
        t == creq[q].target IN
    /\ creq[q].op = "invite_users"
    /\ creq[q].pc = "adding"
    /\ chats' = [chats EXCEPT ![c] =
                    IF @.chat_type = "channel"
                    THEN add_channel_subscriber(@, t)
                    ELSE add_chat_member(@, Member(t, "member"))]
    /\ creq' = Finish(q)
    /\ resp' = "ok"
    /\ UNCHANGED notChatVars

\* POST /chats/{chat_id}/ban: check_can_ban_users
BanCheck(q, c, t) ==
    LET u == ReqUser(q)
        gate == check_can_ban_users(c, u, t) IN
    /\ creq[q].pc = "idle"
    /\ IF gate # "ok"
       THEN /\ resp' = gate
            /\ creq' = creq
       ELSE /\ creq' = [creq EXCEPT ![q] =
                           [op |-> "ban_user", pc |-> "permitted", chat |-> c,
                            target |-> t, known |-> FALSE, reply_to |-> None,
                            at |-> now]]
            /\ resp' = resp
    /\ UNCHANGED chats
    /\ UNCHANGED notChatVars

\* ban_user_from_chat, first update: the target leaves members / subscribers
BanRemove(q) ==
    LET c == creq[q].chat
        t == creq[q].target IN
    /\ creq[q].op = "ban_user"
    /\ creq[q].pc = "permitted"
    /\ chats' = [chats EXCEPT ![c] =
                    IF @.chat_type = "channel"
                    THEN remove_channel_subscriber(@, t)
                    ELSE remove_chat_member(@, t)]
    /\ creq' = [creq EXCEPT ![q].pc = "removed"]
    /\ resp' = resp
    /\ UNCHANGED notChatVars

\* ban_user_from_chat, second update: the target enters banned_users
BanAdd(q) ==
    LET u == ReqUser(q)
        c == creq[q].chat
        t == creq[q].target IN
    /\ creq[q].op = "ban_user"
    /\ creq[q].pc = "removed"
    /\ chats' = [chats EXCEPT ![c] = add_banned(@, BanRecord(t, u, creq[q].at))]
    /\ creq' = Finish(q)
    /\ resp' = "ok"
    /\ UNCHANGED notChatVars

\* ban_user_from_chat, second update raising (the store is unreachable): the
\* exception ends the request after the first update
BanAddFails(q) ==
    LET u == ReqUser(q)
        c == creq[q].chat IN
    /\ creq[q].op = "ban_user"
    /\ creq[q].pc = "removed"
    /\ creq' = Finish(q)
    /\ resp' = "500"
    /\ UNCHANGED chats
    /\ UNCHANGED notChatVars

\* POST /chats/{chat_id}/unban/{user_id}; the response is recorded with the
\* message of its body, "User unbanned"
unban_user(u, c, t) ==
    LET gate == check_can_ban_users(c, u, t) IN
    /\ resp' = IF gate = "ok" THEN "ok:unbanned" ELSE gate
    /\ chats' = IF gate = "ok"
                THEN [chats EXCEPT ![c] = unban_user_from_chat(@, t)]
                ELSE chats
    /\ UNCHANGED creq
    /\ UNCHANGED notChatVars

\* POST /chats/{chat_id}/promote/{user_id} without a permissions list
promote_to_admin(u, c, t) ==
    LET gate == check_can_promote_to_admin(c, u) IN
    /\ resp' = gate
    /\ chats' = IF gate = "ok"
                THEN [chats EXCEPT ![c] =
                        update_member_role(@, t, "admin",
                            Rights(IF @.chat_type = "channel"
                                   THEN get_channel_default_permissions
                                   ELSE get_default_admin_permissions))]
                ELSE chats
    /\ UNCHANGED creq
    /\ UNCHANGED notChatVars

\* POST /chats/{chat_id}/demote/{user_id}
demote_admin(u, c, t) ==
    LET gate == check_can_promote_to_admin(c, u) IN
    /\ resp' = gate
    /\ chats' = IF gate = "ok"
                THEN [chats EXCEPT ![c] = update_member_role(@, t, "member", NoRights)]
                ELSE chats
    /\ UNCHANGED creq
    /\ UNCHANGED notChatVars

\* ---------------------------------------------------------- send_message
\* the ids uuid4 hands to new messages, in the order in which it hands them
\* out (the ids are opaque: which one comes first makes no difference)
IdSeq == <<"m1", "m2">>
SentIds == {IdSeq[i] : i \in 1..Len(IdSeq)}
Rank(m) == CHOOSE i \in 1..Len(IdSeq) : IdSeq[i] = m
UnusedIds == SentIds \ DOMAIN messages
NewId == CHOOSE m \in UnusedIds : \A x \in UnusedIds : Rank(m) <= Rank(x)

\* the requests that have passed the gate and not stored their message yet
Allowed == {q \in Reqs : creq[q].op = "send_message" /\ creq[q].pc = "allowed"}
Posting == {r \in Reqs : /\ rreq[r].op \in {"post_message", "forward_messages"}
                         /\ rreq[r].pc = "checked"}
MayCreate == Cardinality(UnusedIds) > Cardinality(Allowed) + Cardinality(Posting)

\* the document send_message stores for a text message
SentMessage(chat, sender, reply_to) ==
    [Message(chat, sender) EXCEPT !.read_by = {sender}, !.created_at = now,
                                  !.reply_to = reply_to]

\* db.messages.insert_one
create_message(m, document) ==
    [x \in DOMAIN messages \cup {m} |-> IF x = m THEN document ELSE messages[x]]

NewMessageEvent(chat, m, u) ==
    [kind |-> "new_message", chat |-> chat, msg |-> m, user |-> u]

\* POST /chats/{chat_id}/messages with a text message: check_can_send_message;
\* the reply_to of the request is not looked at
SendGate(q, c, reply_to) ==
    LET u == ReqUser(q)
        gate == check_can_send_message(c, u) IN
    /\ creq[q].pc = "idle"
    /\ IF gate # "ok"
       THEN /\ resp' = gate
            /\ creq' = creq
       ELSE /\ MayCreate
            /\ creq' = [creq EXCEPT ![q] =
                           [op |-> "send_message", pc |-> "allowed", chat |-> c,
                            target |-> u, known |-> TRUE,
                            reply_to |-> reply_to]]
            /\ resp' = resp
    /\ UNCHANGED chats
    /\ UNCHANGED notChatVars

\* send_message: create_message under a new id
SendStore(q) ==
    /\ creq[q].op = "send_message"
    /\ creq[q].pc = "allowed"
    /\ UnusedIds # {}
    /\ messages' = create_message(NewId, SentMessage(creq[q].chat, ReqUser(q),
                                                     creq[q].reply_to))
    /\ creq' = [creq EXCEPT ![q].pc = "stored", ![q].target = NewId]
    /\ UNCHANGED <<chats, resp, rreq, events, socialVars, sockVars, now>>

\* send_message: socket_manager.send_message_to_chat, then the response
SendNotify(q) ==
    /\ creq[q].op = "send_message"
    /\ creq[q].pc = "stored"
    /\ Len(events) < MaxEvents
    /\ events' = Append(events,
                       NewMessageEvent(creq[q].chat, creq[q].target, ReqUser(q)))
    /\ resp' = "ok"
    /\ creq' = Finish(q)
    /\ UNCHANGED <<chats, messages, rreq, socialVars, sockVars, now>>

\* ------------------------------------ send_message of the mounted router
\* the chat documents of the mounted router: participants is a list of user
\* ids, admins the ids that may post in a channel restricted to its admins
PostedChat(type, participants, admins, restricted) ==
    [chat_type |-> type, participants |-> participants, admins |-> admins,
     only_admins_can_post |-> restricted]

\* the other participant of a direct chat, if there is one
OtherParticipants(c, u) == chats[c].participants \ {u}

\* the reply_to of a request names a stored message of the chat
ValidReply(c, reply_to) ==
    /\ reply_to \in DOMAIN messages
    /\ messages[reply_to].chat_id = c

\* the checks of send_message, in their order
post_gate(c, u, reply_to) ==
    IF c \notin DOMAIN chats THEN "404"
    ELSE IF u \notin chats[c].participants THEN "403"
    ELSE IF /\ chats[c].chat_type = "direct"
            /\ \E o \in OtherParticipants(c, u) :
                  u \in blocked_users[o] \/ o \in blocked_users[u]
         THEN "403"
    ELSE IF /\ chats[c].chat_type = "channel"
            /\ chats[c].only_admins_can_post
            /\ u \notin chats[c].admins
         THEN "403"
    ELSE IF reply_to # None /\ ~ValidReply(c, reply_to) THEN "400"
    ELSE "ok"

\* POST /chats/{chat_id}/messages: the chat, the participant test, the blocks
\* of a direct chat and the reply_to of the request
PostCheck(r, c, reply_to) ==
    LET u == ReqUser(r)
        gate == post_gate(c, u, reply_to) IN
    /\ rreq[r].pc = "idle"
    /\ IF gate # "ok"
       THEN /\ resp' = gate
            /\ UNCHANGED rreq
       ELSE /\ MayCreate
            /\ rreq' = [rreq EXCEPT ![r] =
                   MReq("post_message", "checked", u, None,
                        [chat |-> c, reply_to |-> reply_to])]
            /\ UNCHANGED resp
    /\ UNCHANGED <<messages, events>>
    /\ UNCHANGED notMsgVars

\* send_message: create_message under a new id
PostStore(r) ==
    LET q == rreq[r] IN
    /\ q.op = "post_message" /\ q.pc = "checked"
    /\ UnusedIds # {}
    /\ messages' = create_message(NewId, SentMessage(q.local.chat, q.user,
                                                     q.local.reply_to))
    /\ rreq' = [rreq EXCEPT ![r].pc = "stored", ![r].msg = NewId]
    /\ UNCHANGED <<events, resp>>
    /\ UNCHANGED notMsgVars

\* send_message: socket_manager.send_message_to_chat, then the response;
\* sio.emit takes the event, or raises and send_message_to_chat logs the error
\* and returns
PostNotify(r) ==
    LET q == rreq[r] IN
    /\ q.op = "post_message" /\ q.pc = "stored"
    /\ \/ /\ Len(events) < MaxEvents
          /\ events' = Append(events, NewMessageEvent(q.local.chat, q.msg, q.user))
       \/ UNCHANGED events
    /\ rreq' = [rreq EXCEPT ![r] = IdleReq]
    /\ resp' = "ok"
    /\ UNCHANGED messages
    /\ UNCHANGED notMsgVars

\* ------------------------------------------------------ forward_messages
forward_gate_any(dest, src, u) == IF dest \notin DOMAIN chats THEN "404" ELSE "ok"

\* the target chat and the actor's place in it, then the source chat and the
\* actor's place in it
forward_gate(dest, src, u) ==
    IF dest \notin DOMAIN chats THEN "404"
    ELSE IF u \notin chats[dest].participants THEN "403"
    ELSE IF src \notin DOMAIN chats THEN "403"
    ELSE IF u \notin chats[src].participants THEN "403"
    ELSE "ok"

\* the document forward_messages stores for an original message
ForwardedMessage(dest, sender, m) ==
    [Message(dest, sender) EXCEPT !.content = messages[m].content,
                                  !.read_by = {sender}, !.created_at = now,
                                  !.forwarded_from = m]

\* POST /chats/{chat_id}/forward with one message id
FwdCheck(r, dest, src, m) ==
    LET u == ReqUser(r)
        gate == forward_gate(dest, src, u) IN
    /\ rreq[r].pc = "idle"
    /\ IF gate # "ok"
       THEN /\ resp' = gate
            /\ UNCHANGED rreq
       ELSE /\ MayCreate
            /\ rreq' = [rreq EXCEPT ![r] =
                   MReq("forward_messages", "checked", u, m,
                        [chat |-> dest, from |-> src])]
            /\ UNCHANGED resp
    /\ UNCHANGED <<messages, events>>
    /\ UNCHANGED notMsgVars

\* the loop body: a message id that is not a message of the source chat is
\* skipped (nothing is forwarded and the request answers 200); otherwise the
\* copy is stored under a new id
FwdStore(r) ==
    LET q == rreq[r] IN
    /\ q.op = "forward_messages" /\ q.pc = "checked"
    /\ IF q.msg \notin DOMAIN messages \/ messages[q.msg].chat_id # q.local.from
       THEN /\ UNCHANGED messages
            /\ rreq' = [rreq EXCEPT ![r] = IdleReq]
            /\ resp' = "ok"
       ELSE /\ UnusedIds # {}
            /\ messages' = create_message(NewId,
                               ForwardedMessage(q.local.chat, q.user, q.msg))
            /\ rreq' = [rreq EXCEPT ![r].pc = "stored", ![r].msg = NewId]
            /\ UNCHANGED resp
    /\ UNCHANGED events
    /\ UNCHANGED notMsgVars

\* send_message_to_chat for the copy; the call of
\* socket_manager.broadcast_messages_forwarded that follows names a method
\* SocketManager does not have, and the request ends with 500
FwdNotify(r) ==
    LET q == rreq[r] IN
    /\ q.op = "forward_messages" /\ q.pc = "stored"
    /\ Len(events) < MaxEvents
    /\ events' = Append(events, NewMessageEvent(q.local.chat, q.msg, q.user))
    /\ rreq' = [rreq EXCEPT ![r] = IdleReq]
    /\ resp' = "500"
    /\ UNCHANGED messages
    /\ UNCHANGED notMsgVars

\* ---------------------------------------------------- remove_participant
\* DELETE /chats/{chat_id}/participants/{user_id}: an admin removes anyone, a
\* user removes itself; the notices go to users, not to the room of the chat
remove_participant(u, c, t) ==
    /\ IF c \notin DOMAIN chats
       THEN resp' = "404" /\ UNCHANGED chats
       ELSE IF chats[c].chat_type = "direct"
       THEN resp' = "400" /\ UNCHANGED chats
       ELSE IF u # t /\ u \notin chats[c].admins
       THEN resp' = "403" /\ UNCHANGED chats
       ELSE /\ chats' = [chats EXCEPT ![c].participants = @ \ {t},
                                      ![c].admins = @ \ {t}]
            /\ resp' = "ok"
    /\ UNCHANGED <<msgVars, creq, socialVars, sockVars, now>>

\* the transport hands the oldest event in flight to the room's connections
Deliver ==
    /\ events # <<>>
    /\ events' = Tail(events)
    /\ UNCHANGED <<messages, rreq, resp>>
    /\ UNCHANGED notMsgVars

\* ------------------------------------------------------- specification
InitReact ==
    /\ messages = [m \in Msgs |-> Message("c1", "u1")]
    /\ rreq = [r \in Reqs |-> IdleReq]
    /\ events = <<>>
    /\ resp = NoResp
    /\ chats = EmptyMap
    /\ creq = [q \in Reqs |-> IdleCReq]
    /\ friends = [u \in Users |-> {}]
    /\ NoSocial
    /\ NoSockets
    /\ now = StartNow

NextReact ==
    \/ \E r \in Reqs, m \in Msgs \cup {"m9"}, em \in Emojis :
          ReactRead(r, m, em)
    \/ \E r \in Reqs : ReactRemoveOld(r)
    \/ \E r \in Reqs : ReactWrite(r)
    \/ \E r \in Reqs : ReactEmitAdd(r)
    \/ \E r \in Reqs, m \in Msgs \cup {"m9"}, em \in Emojis :
          UnreactRead(r, m, em)
    \/ \E r \in Reqs : UnreactWrite(r)
    \/ \E r \in Reqs : UnreactEmit(r)
    \/ Deliver

SpecReact == InitReact /\ [][NextReact]_vars

\* the same handlers with requests served one at a time
OthersIdle(r) == \A o \in Reqs \ {r} : rreq[o].pc = "idle"

NextReactSeq ==
    \/ \E r \in Reqs, m \in Msgs \cup {"m9"}, em \in Emojis :
          OthersIdle(r) /\ ReactRead(r, m, em)
    \/ \E r \in Reqs : ReactRemoveOld(r)
    \/ \E r \in Reqs : ReactWrite(r)
    \/ \E r \in Reqs : ReactEmitAdd(r)
    \/ \E r \in Reqs, m \in Msgs \cup {"m9"}, em \in Emojis :
          OthersIdle(r) /\ UnreactRead(r, m, em)
    \/ \E r \in Reqs : UnreactWrite(r)
    \/ \E r \in Reqs : UnreactEmit(r)
    \/ Deliver

SpecReactSeq == InitReact /\ [][NextReactSeq]_vars

\* ------------------------------------------------------------------ claims

\* ------------------------------------------------------- chat specification
\* no chat yet; u1 and u2 are friends of each other, u3 has no friend
InitChat ==
    /\ messages = [m \in Msgs |-> Message("c1", "u1")]
    /\ rreq = [r \in Reqs |-> IdleReq]
    /\ events = <<>>
    /\ resp = NoResp
    /\ chats = EmptyMap
    /\ creq = [q \in Reqs |-> IdleCReq]
    /\ friends = [u \in Users |-> IF u = "u1" THEN {"u2"}
                                  ELSE IF u = "u2" THEN {"u1"} ELSE {}]
    /\ NoSocial
    /\ NoSockets
    /\ now = StartNow

NextChat ==
    \/ \E u \in Users, p \in SUBSET Users : create_direct_chat(u, p)
    \/ \E u \in Founders, p \in SUBSET Users, public \in BOOLEAN :
          create_group_chat(u, p, public)
    \/ \E u \in Founders, public \in BOOLEAN : create_channel_chat(u, public)
    \/ \E u \in Users, c \in NamedIds : get_chat(u, c)
    \/ \E u \in Users, c \in NamedIds : leave_chat(u, c)
    \/ \E q \in Reqs, c \in NamedIds : JoinRead(q, c)
    \/ \E q \in Reqs : JoinNotBanned(q)
    \/ \E q \in Reqs : JoinAdd(q)
    \/ \E q \in Reqs, c \in NamedIds, t \in Users : InviteCheck(q, c, t)
    \/ \E q \in Reqs : InviteNotBanned(q)
    \/ \E q \in Reqs : InviteAdd(q)
    \/ \E q \in Reqs, c \in NamedIds, t \in Users : BanCheck(q, c, t)
    \/ \E q \in Reqs : BanRemove(q)
    \/ \E q \in Reqs : BanAdd(q)
    \/ \E q \in Reqs : BanAddFails(q)
    \/ \E u \in Users, c \in NamedIds, t \in Users : unban_user(u, c, t)
    \/ \E u \in Users, c \in NamedIds, t \in Users : promote_to_admin(u, c, t)
    \/ \E u \in Users, c \in NamedIds, t \in Users : demote_admin(u, c, t)

SpecChat == InitChat /\ [][NextChat]_vars

\* The same handlers with requests served one at a time: a request starts only
\* while no other is in flight.
Quiet == \A q \in Reqs : creq[q].pc = "idle"

NextChatSeq ==
    \/ /\ Quiet
       /\ \/ \E u \in Users, p \in SUBSET Users : create_direct_chat(u, p)
          \/ \E u \in Founders, p \in SUBSET Users, public \in BOOLEAN :
                create_group_chat(u, p, public)
          \/ \E u \in Founders, public \in BOOLEAN : create_channel_chat(u, public)
          \/ \E u \in Users, c \in NamedIds : get_chat(u, c)
          \/ \E u \in Users, c \in NamedIds : leave_chat(u, c)
          \/ \E q \in Reqs, c \in NamedIds : JoinRead(q, c)
          \/ \E q \in Reqs, c \in NamedIds, t \in Users : InviteCheck(q, c, t)
          \/ \E q \in Reqs, c \in NamedIds, t \in Users : BanCheck(q, c, t)
          \/ \E u \in Users, c \in NamedIds, t \in Users : unban_user(u, c, t)
          \/ \E u \in Users, c \in NamedIds, t \in Users : promote_to_admin(u, c, t)
          \/ \E u \in Users, c \in NamedIds, t \in Users : demote_admin(u, c, t)
    \/ \E q \in Reqs : JoinNotBanned(q)
    \/ \E q \in Reqs : JoinAdd(q)
    \/ \E q \in Reqs : InviteNotBanned(q)
    \/ \E q \in Reqs : InviteAdd(q)
    \/ \E q \in Reqs : BanRemove(q)
    \/ \E q \in Reqs : BanAdd(q)
    \/ \E q \in Reqs : BanAddFails(q)

SpecChatSeq == InitChat /\ [][NextChatSeq]_vars

\* --------------------------------------------------------- ban specification
\* a private group of u1 with u2 and u3, its member_count and its ban records
CountedGroup ==
    GroupChat("u1", {"u2", "u3"}, FALSE)
        @@ [member_count |-> 3, ban_records |-> {}]
\* how far below its start the member count is followed
MaxBans == 3

InitBan ==
    /\ messages = [m \in Msgs |-> Message("c1", "u1")]
    /\ rreq = [r \in Reqs |-> IdleReq]
    /\ events = <<>>
    /\ resp = NoResp
    /\ chats = [c \in {"c1"} |-> CountedGroup]
    /\ creq = [q \in Reqs |-> IdleCReq]
    /\ friends = [u \in Users |-> {}]
    /\ NoSocial
    /\ NoSockets
    /\ now = StartNow

\* bans are served one at a time, and retried after a failure
NextBan ==
    \/ /\ Quiet
       /\ chats["c1"].member_count > 3 - MaxBans
       /\ \E q \in Reqs, c \in NamedIds, t \in Users : BanCheck(q, c, t)
    \/ \E q \in Reqs : BanRemove(q)
    \/ \E q \in Reqs : BanAdd(q)
    \/ \E q \in Reqs : BanAddFails(q)
    \/ Tick

SpecBan == InitBan /\ [][NextBan]_vars

\* -------------------------------------------------------- send specification
\* the restrictions a stored member document can carry: none, or a
\* ChatPermissions document
StoredRestrictions ==
    {NoRights}
    \cup {Restrictions([ChatPermissions EXCEPT !.can_send_messages = b]) :
              b \in BOOLEAN}

\* a private group of u1 (owner), u2 and u3 whose stored default permissions
\* allow or forbid sending, and where u2 is stored with or without restrictions
StoredGroup(default, restrictions) ==
    [GroupChat("u1", {"u3"}, FALSE) EXCEPT
        !.default_permissions.can_send_messages = default,
        !.members = @ \cup {[Member("u2", "member") EXCEPT
                                !.restrictions = restrictions]}]

InitSend ==
    /\ messages = EmptyMap
    /\ rreq = [r \in Reqs |-> IdleReq]
    /\ events = <<>>
    /\ resp = NoResp
    /\ \E default \in BOOLEAN, restrictions \in StoredRestrictions :
          chats = [c \in {"c1"} |-> StoredGroup(default, restrictions)]
    /\ creq = [q \in Reqs |-> IdleCReq]
    /\ friends = [u \in Users |-> {}]
    /\ NoSocial
    /\ NoSockets
    /\ now = StartNow

\* the mounted router with two chats: u1 and u2 share c1, a direct chat, a
\* group or a channel only its admin u2 posts in; u2 and u3 share the group
\* c2, which holds one message of u2
PostChatIds == {"c1", "c2", "c9"}
ReplyIds == {None, "m0", "m1", "m9"}
ForwardIds == {"m0", "m1", "m9"}
\* the identities that call remove_participant, on themselves or on the other
Removers == {"u1", "u2"}

InitPost ==
    /\ messages = [m \in {"m0"} |-> Message("c2", "u2")]
    /\ rreq = [r \in Reqs |-> IdleReq]
    /\ events = <<>>
    /\ resp = NoResp
    /\ \E type \in {"direct", "group", "channel"} :
          chats = [c \in {"c1", "c2"} |->
                     IF c = "c1"
                     THEN PostedChat(type, {"u1", "u2"}, {"u2"}, type = "channel")
                     ELSE PostedChat("group", {"u2", "u3"}, {"u2"}, FALSE)]
    /\ creq = [q \in Reqs |-> IdleCReq]
    /\ friends = [u \in Users |-> {}]
    /\ \E blocked \in SUBSET {"u2"} :
          blocked_users = [u \in Users |-> IF u = "u1" THEN blocked ELSE {}]
    /\ blocks = {}
    /\ friend_requests = EmptyMap
    /\ freq = [q \in Reqs |-> IdleFReq]
    /\ NoSockets
    /\ now = StartNow

\* the handlers interleave at their awaits
NextPost ==
    \/ \E r \in Reqs, c \in PostChatIds, reply_to \in ReplyIds :
          PostCheck(r, c, reply_to)
    \/ \E r \in Reqs : PostStore(r)
    \/ \E r \in Reqs : PostNotify(r)
    \/ \E r \in Reqs, dest \in PostChatIds, src \in PostChatIds, m \in ForwardIds :
          FwdCheck(r, dest, src, m)
    \/ \E r \in Reqs : FwdStore(r)
    \/ \E r \in Reqs : FwdNotify(r)
    \/ \E u \in Removers, c \in PostChatIds, t \in Removers :
          remove_participant(u, c, t)
    \/ Deliver

SpecPost == InitPost /\ [][NextPost]_vars

\* requests are served one at a time
NextSend ==
    \/ /\ Quiet
       /\ \/ \E q \in Reqs, c \in NamedIds : SendGate(q, c, None)
          \/ \E q \in Reqs, c \in NamedIds, t \in Users : InviteCheck(q, c, t)
          \/ \E q \in Reqs, c \in NamedIds, t \in Users : BanCheck(q, c, t)
          \/ \E u \in Users, c \in NamedIds, t \in Users : unban_user(u, c, t)
          \/ \E u \in Users, c \in NamedIds, t \in Users : promote_to_admin(u, c, t)
          \/ \E u \in Users, c \in NamedIds, t \in Users : demote_admin(u, c, t)
    \/ \E q \in Reqs : SendStore(q)
    \/ \E q \in Reqs : SendNotify(q)
    \/ \E q \in Reqs : InviteNotBanned(q)
    \/ \E q \in Reqs : InviteAdd(q)
    \/ \E q \in Reqs : BanRemove(q)
    \/ \E q \in Reqs : BanAdd(q)
    \/ \E q \in Reqs : BanAddFails(q)
    \/ Deliver

SpecSend == InitSend /\ [][NextSend]_vars

\* ----------------------------------------------------- channel specification
\* a public channel of u1, as created
InitChannel ==
    /\ messages = EmptyMap
    /\ rreq = [r \in Reqs |-> IdleReq]
    /\ events = <<>>
    /\ resp = NoResp
    /\ chats = [c \in {"c1"} |-> ChannelChat("u1", TRUE)]
    /\ creq = [q \in Reqs |-> IdleCReq]
    /\ friends = [u \in Users |-> {}]
    /\ NoSocial
    /\ NoSockets
    /\ now = StartNow

\* the reply_to of the sends to the channel: none, the first message of the
\* channel, an id no message has
SendReplyIds == {None, "m1", "m9"}

\* requests are served one at a time
NextChannel ==
    \/ /\ Quiet
       /\ \/ \E q \in Reqs, c \in NamedIds, reply_to \in SendReplyIds :
                SendGate(q, c, reply_to)
          \/ \E q \in Reqs, c \in NamedIds : JoinRead(q, c)
          \/ \E u \in Users, c \in NamedIds : leave_chat(u, c)
          \/ \E u \in Users, c \in NamedIds, t \in Users : promote_to_admin(u, c, t)
          \/ \E u \in Users, c \in NamedIds, t \in Users : demote_admin(u, c, t)
    \/ \E q \in Reqs : SendStore(q)
    \/ \E q \in Reqs : SendNotify(q)
    \/ \E q \in Reqs : JoinNotBanned(q)
    \/ \E q \in Reqs : JoinAdd(q)
    \/ Deliver

SpecChannel == InitChannel /\ [][NextChannel]_vars

\* ---------------------------------------------------- messages specification
\* what one message looks like to a reader
View(m) == [id |-> m, content |-> messages[m].content, edited |-> messages[m].edited]

\* GET /chats/{chat_id}/messages: the chat, the participant check, the stored
\* messages of the chat that are not deleted, without those the reader has
\* deleted for itself
get_messages(u, c) ==
    IF c \notin DOMAIN chats THEN "404"
    ELSE IF u \notin Participants(chats[c]) THEN "403"
    ELSE {View(m) : m \in {x \in DOMAIN messages :
                              /\ messages[x].chat_id = c
                              /\ ~messages[x].deleted
                              /\ u \notin messages[x].deleted_for}}

\* chat c1 is a group of u1, u2 and u3; u1 has sent message m1 to it
InitMsg ==
    /\ messages = [m \in Msgs |-> Message("c1", "u1")]
    /\ rreq = [r \in Reqs |-> IdleReq]
    /\ events = <<>>
    /\ resp = NoResp
    /\ chats = [c \in {"c1"} |-> GroupChat("u1", {"u2", "u3"}, FALSE)]
    /\ creq = [q \in Reqs |-> IdleCReq]
    /\ friends = [u \in Users |-> {}]
    /\ NoSocial
    /\ NoSockets
    /\ now = StartNow

NextMsg ==
    \/ \E r \in Reqs, m \in Msgs \cup {"m9"} : MarkRead(r, m)
    \/ \E r \in Reqs : MarkWrite(r)
    \/ \E r \in Reqs : MarkEmit(r)
    \/ \E r \in Reqs, m \in Msgs \cup {"m9"}, content \in Contents :
          EditRead(r, m, content)
    \/ \E r \in Reqs : EditWrite(r)
    \/ \E r \in Reqs : EditEmit(r)
    \/ \E r \in Reqs, m \in Msgs \cup {"m9"}, for_everyone \in BOOLEAN :
          DeleteRead(r, m, for_everyone)
    \/ \E r \in Reqs : DeleteWrite(r)
    \/ \E r \in Reqs : DeleteEmit(r)
    \/ Deliver
    \/ Tick

SpecMsg == InitMsg /\ [][NextMsg]_vars

\* the same handlers called by u1, a member of the chat of the message, and by
\* u2, who is not one
InitOutside ==
    /\ messages = [m \in Msgs |-> Message("c1", "u1")]
    /\ rreq = [r \in Reqs |-> IdleReq]
    /\ events = <<>>
    /\ resp = NoResp
    /\ chats = [c \in {"c1"} |-> GroupChat("u1", {"u3"}, FALSE)]
    /\ creq = [q \in Reqs |-> IdleCReq]
    /\ friends = [u \in Users |-> {}]
    /\ NoSocial
    /\ NoSockets
    /\ now = StartNow

SpecOutside == InitOutside /\ [][NextMsg]_vars

\* ---------------------------------------------------- friends specification
InitFriends ==
    /\ messages = [m \in Msgs |-> Message("c1", "u1")]
    /\ rreq = [r \in Reqs |-> IdleReq]
    /\ events = <<>>
    /\ resp = NoResp
    /\ chats = EmptyMap
    /\ creq = [q \in Reqs |-> IdleCReq]
    /\ friends = [u \in Users |-> {}]
    /\ NoSocial
    /\ NoSockets
    /\ now = StartNow

NextFriends ==
    \/ \E q \in Reqs, t \in FriendIds : SendCheck(q, t)
    \/ \E q \in Reqs : SendInsert(q)
    \/ \E q \in Reqs, f \in RequestIds : AcceptRead(q, f)
    \/ \E q \in Reqs : AcceptMark(q)
    \/ \E q \in Reqs : AcceptReceiver(q)
    \/ \E q \in Reqs : AcceptSender(q)
    \/ \E u \in FriendIds, f \in RequestIds : reject_friend_request(u, f)
    \/ \E q \in Reqs, t \in FriendIds : BlockList(q, t)
    \/ \E q \in Reqs : BlockPullOwn(q)
    \/ \E q \in Reqs : BlockPullOther(q)
    \/ \E u \in FriendIds, t \in FriendIds : unblock_user(u, t)
    \/ \E u \in FriendIds, t \in FriendIds : block_user_enhanced(u, t)
    \/ \E u \in FriendIds, t \in FriendIds : unblock_user_enhanced(u, t)

SpecFriends == InitFriends /\ [][NextFriends]_vars

\* ------------------------------------------- friend request gate specification
\* send_friend_request of the enhanced router, up to the end of its permission
\* checks: the target exists, then check_can_send_friend_request
FriendGate(u, t) ==
    /\ resp' = check_can_send_friend_request(u, t)
    /\ UNCHANGED <<msgVars, chatVars, socialVars, sockVars, now>>

\* the friendships and the blocks the users may have among them
Pairs == {p \in SUBSET Users : Cardinality(p) = 2}
Ordered == {<<a, b>> : a \in Users, b \in Users} \ {<<a, a>> : a \in Users}

InitGate ==
    /\ messages = [m \in Msgs |-> Message("c1", "u1")]
    /\ rreq = [r \in Reqs |-> IdleReq]
    /\ events = <<>>
    /\ resp = NoResp
    /\ chats = EmptyMap
    /\ creq = [q \in Reqs |-> IdleCReq]
    /\ \E made \in SUBSET Pairs :
          friends = [u \in Users |-> {t \in Users \ {u} : {u, t} \in made}]
    /\ blocked_users = [u \in Users |-> {}]
    /\ blocks \in SUBSET Ordered
    /\ friend_requests = EmptyMap
    /\ freq = [q \in Reqs |-> IdleFReq]
    /\ NoSockets
    /\ now = StartNow

NextGate == \E u \in Users, t \in Users : FriendGate(u, t)

SpecGate == InitGate /\ [][NextGate]_vars

\* ------------------------------------------------ direct chat specification
\* u1 and u2 are strangers: no friendship, no friend request, no chat
InitDirect ==
    /\ messages = [m \in Msgs |-> Message("c1", "u1")]
    /\ rreq = [r \in Reqs |-> IdleReq]
    /\ events = <<>>
    /\ resp = NoResp
    /\ chats = EmptyMap
    /\ creq = [q \in Reqs |-> IdleCReq]
    /\ friends = [u \in Users |-> {}]
    /\ NoSocial
    /\ NoSockets
    /\ now = StartNow

NextDirect ==
    \/ \E q \in Reqs, t \in FriendIds : SendCheck(q, t)
    \/ \E q \in Reqs : SendInsert(q)
    \/ \E q \in Reqs, f \in RequestIds : AcceptRead(q, f)
    \/ \E q \in Reqs : AcceptMark(q)
    \/ \E q \in Reqs : AcceptReceiver(q)
    \/ \E q \in Reqs : AcceptSender(q)
    \/ \E u \in FriendIds, f \in RequestIds : reject_friend_request(u, f)
    \/ \E u \in FriendIds, ids \in SUBSET FriendIds : create_direct_chat(u, ids)

SpecDirect == InitDirect /\ [][NextDirect]_vars

\* ---------------------------------------------------- presence specification
InitPresence ==
    /\ messages = [m \in Msgs |-> Message("c1", "u1")]
    /\ rreq = [r \in Reqs |-> IdleReq]
    /\ events = <<>>
    /\ resp = NoResp
    /\ chats = EmptyMap
    /\ creq = [q \in Reqs |-> IdleCReq]
    /\ friends = [u \in Users |-> {}]
    /\ NoSocial
    /\ NoSockets
    /\ now = StartNow

NextPresence ==
    \/ \E s \in Sids : connect(s)
    \/ \E s \in Sids, token \in Tokens : AuthStart(s, token)
    \/ \E s \in Sids : AuthRegister(s)
    \/ \E s \in Sids : AuthWrite(s)
    \/ \E s \in Sids : AuthNotify(s)
    \/ \E s \in Sids : DiscRemove(s)
    \/ \E s \in Sids : DiscWrite(s)
    \/ \E s \in Sids : DiscNotify(s)

SpecPresence == InitPresence /\ [][NextPresence]_vars

\* ------------------------------------------------------- rooms specification
\* Both connections are open; s2 has authenticated as u1 or as u2 and s1 has
\* not (a state SpecPresence reaches).  Chat c1, where it exists, is a private
\* group whose only member is its owner u2.
InitRooms ==
    /\ messages = [m \in Msgs |-> Message("c1", "u1")]
    /\ rreq = [r \in Reqs |-> IdleReq]
    /\ events = <<>>
    /\ resp = NoResp
    /\ chats \in {EmptyMap, [c \in {"c1"} |-> GroupChat("u2", {}, FALSE)]}
    /\ creq = [q \in Reqs |-> IdleCReq]
    /\ friends = [u \in Users |-> {}]
    /\ NoSocial
    /\ status = [s \in Sids |-> "open"]
    /\ \E w \in {"u1", "u2"} :
         /\ user_connections = [u \in Users |-> IF u = w THEN {"s2"} ELSE {}]
         /\ profiles = [u \in Users |-> IF u = w THEN Profile(u, TRUE, "authenticate")
                                        ELSE Profile(u, FALSE, None)]
         /\ out = Out("authenticate", "s2", {Emit("authenticated", "s2", w, TRUE)})
    /\ areq = [s \in Sids |-> IdleSReq]
    /\ dreq = [s \in Sids |-> IdleSReq]
    /\ rooms = [s \in Sids |-> {}]
    /\ chat_presence = [c \in RoomIds |-> {}]
    /\ typing_users = [c \in RoomIds |-> {}]
    /\ now = StartNow

NextRooms ==
    \/ \E s \in Sids, room \in Maybe(RoomIds) : join_room(s, room)
    \/ \E s \in Sids, room \in Maybe(RoomIds) : send_message_signal(s, room)
    \/ \E s \in Sids, chat \in Maybe(RoomIds), u \in Maybe(Users) :
          join_chat_signal(s, chat, u)
    \/ \E s \in Sids, chat \in Maybe(RoomIds), u \in Maybe(Users) :
          leave_chat_signal(s, chat, u)
    \/ \E s \in Sids, chat \in Maybe(RoomIds), u \in Maybe(Users), is_typing \in BOOLEAN :
          typing(s, chat, u, is_typing)

SpecRooms == InitRooms /\ [][NextRooms]_vars

\* connections whose clients put their own identity in the payload of
\* join_chat, leave_chat and typing, and that may close at any time
NextLeave ==
    \/ \E s \in Sids, chat \in RoomIds : join_chat_signal(s, chat, FoundUser(s))
    \/ \E s \in Sids, chat \in RoomIds : leave_chat_signal(s, chat, FoundUser(s))
    \/ \E s \in Sids, chat \in RoomIds, is_typing \in BOOLEAN :
          typing(s, chat, FoundUser(s), is_typing)
    \/ \E s \in Sids : DiscRemove(s)
    \/ \E s \in Sids : DiscWrite(s)
    \/ \E s \in Sids : DiscNotify(s)

SpecLeave == InitRooms /\ [][NextLeave]_vars

Reflected(ev, msgs) ==
    LET held == ev.user \in
                  UNION {msgs[ev.msg].reactions[e] :
                            e \in DOMAIN msgs[ev.msg].reactions \cap {ev.emoji}}
    IN IF ev.action = "add" THEN held ELSE ~held

WriteThenNotify ==
    [][(Len(events') = Len(events) + 1 /\ SubSeq(events', 1, Len(events)) = events)
          => Reflected(events'[Len(events')], messages)]_vars

\* C2: every direct chat has exactly two members, and none of them holds the
\* admin role.
DirectChatShape ==
    \A c \in DOMAIN chats :
        chats[c].chat_type = "direct"
            => /\ Cardinality(MemberIds(chats[c])) = 2
               /\ \A m \in chats[c].members : m.role # "admin"

\* C4: once a permitted ban has taken its target out of the members or
\* subscribers of the chat, the target is in the ban list of the chat: no state
\* shows the target in neither.
BanAtomic ==
    \A q \in Reqs :
        (creq[q].op = "ban_user" /\ creq[q].pc = "removed")
            => creq[q].target \in BannedIds(chats[creq[q].chat])

\* C5: no identity is at once in the ban list of a chat and among its members
\* or subscribers.
NoBannedParticipant ==
    \A c \in DOMAIN chats :
        BannedIds(chats[c]) \cap (MemberIds(chats[c]) \cup chats[c].subscribers) = {}

\* the actor is not a member / subscriber of a chat that exists
Outsider(u, c) == c \in DOMAIN chats /\ u \notin Participants(chats[c])

\* a step in which a request of u naming chat c is answered by its membership
\* gate: get_chat, leave_chat, or the check of invite_users
Gated(u, c) ==
    \/ get_chat(u, c)
    \/ leave_chat(u, c)
    \/ \E q \in Reqs, t \in Users : ReqUser(q) = u /\ InviteCheck(q, c, t)

HasBlocked(a, b) == b \in blocked_users[a] \/ <<a, b>> \in blocks

\* C3: can_message(a, b) allows only if each is in the other's friends and
\* neither has blocked the other.
CanMessageSound ==
    \A a \in Users, b \in Users :
        check_can_message_user(a, b) = "ok"
            => /\ b \in friends[a]
               /\ a \in friends[b]
               /\ ~HasBlocked(a, b)
               /\ ~HasBlocked(b, a)

RoomSignals == {"join_room", "send_message", "join_chat", "leave_chat", "typing"}

\* C7: a room or messaging signal handled for a connection that has not
\* authenticated changes none of the connection map, the rooms, the presence
\* sets and the typing sets, and emits nothing to any other connection.
UnauthenticatedRejected ==
    [][(out'.signal \in RoomSignals /\ Identity(out'.sid) = {}) =>
          /\ UNCHANGED <<user_connections, rooms, chat_presence, typing_users>>
          /\ \A e \in out'.emits : e.to = out'.sid]_vars

\* the connection is authenticated and one of its identities is a stored
\* member / subscriber of the chat
MayJoin(s, c) ==
    /\ c \in DOMAIN chats
    /\ \E u \in Identity(s) : u \in Participants(chats[c])

\* C8: a connection enters the room of a chat, and an identity enters the
\* presence set of a chat, only by a join of an authenticated connection whose
\* identity is then a stored member / subscriber of that chat.
JoinNeedsMembership ==
    [][\A c \in RoomIds :
          /\ \A s \in Sids : (c \in rooms'[s] /\ c \notin rooms[s]) => MayJoin(s, c)
          /\ \A u \in Users :
                (u \in chat_presence'[c] /\ u \notin chat_presence[c])
                    => (u \in Identity(out'.sid) /\ MayJoin(out'.sid, c))]_vars

\* C11: when the authentication of a connection completes for an identity that
\* has another live connection, no presence event is emitted; a presence event
\* that is emitted goes to connections of the identity's contacts only.
PresenceOnFirstOnly ==
    [][\A s \in Sids :
          (areq[s].pc = "written" /\ areq'[s].pc = "idle") =>
              /\ (user_connections[areq[s].user] \ {s} # {}) =>
                     ~ \E e \in out'.emits : e.event = "user_status"
              /\ \A e \in out'.emits :
                     e.event = "user_status" =>
                         \E k \in Contacts(areq[s].user) : e.to \in user_connections[k]]_vars

\* the pending friend requests from a to b
PendingFrom(a, b) ==
    {f \in DOMAIN friend_requests : friend_requests[f] = FriendRequest(a, b)}

\* the refusals that say the request is already there
Conflict == {"400:already_sent", "400:accept_instead"}

InFlight == {events[i] : i \in 1..Len(events)}

\* C13: a mark-read by an actor whose status-changed event for the message is
\* still in flight (the actor has marked the message read before) answers at
\* once, starts no write and emits nothing; and a status-changed event is
\* emitted only for an actor that read_by holds.
SecondReadSilent ==
    [][/\ \A r \in Reqs, m \in Msgs :
             (MarkRead(r, m)
                 /\ StatusEvent(messages[m].chat_id, m, ReqUser(r)) \in InFlight) =>
                   /\ resp' = "ok"
                   /\ rreq' = rreq
       /\ \A m \in Msgs, u \in Users :
             (Len(events') > Len(events)
                 /\ events'[Len(events')] = StatusEvent(messages[m].chat_id, m, u)) =>
                   u \in messages'[m].read_by]_vars

\* C14: an edit by the author of a message older than the window is answered
\* as too old and leaves the message as it is; an edit by the author within
\* the window ends as a success with the content replaced and the edited flag
\* set.
EditRoundTrip ==
    [][\A r \in Reqs :
          /\ \A m \in Msgs, content \in Contents :
                (EditRead(r, m, content) /\ messages[m].sender_id = ReqUser(r)) =>
                    IF now - messages[m].created_at > EditWindow
                    THEN /\ resp' = "400:too_old"
                         /\ messages' = messages
                         /\ rreq' = rreq
                    ELSE rreq'[r].op = "edit_message"
          /\ (rreq[r].op = "edit_message" /\ rreq'[r].pc = "idle") =>
                /\ resp' = "ok"
                /\ messages'[rreq[r].msg].content = rreq[r].local
                /\ messages'[rreq[r].msg].edited]_vars

\* C15: the write of a delete-for-me of message m by actor a leaves the content
\* and the deleted flag of m as they are and leaves what every other identity
\* reads from the chat as it is, and a no longer reads m from the chat.
DeleteForMeLocal ==
    [][\A r \in Reqs, m \in Msgs, a \in Users, c \in DOMAIN chats :
          (/\ rreq[r].op = "delete_message" /\ rreq[r].pc = "me"
           /\ rreq'[r].pc = "idle"
           /\ rreq[r].msg = m /\ rreq[r].user = a /\ messages[m].chat_id = c) =>
              /\ messages'[m].content = messages[m].content
              /\ messages'[m].deleted = messages[m].deleted
              /\ \A u \in Users \ {a} : get_messages(u, c)' = get_messages(u, c)
              /\ \A v \in get_messages(a, c)' : v.id # m]_vars

\* a friend request between a and b has been accepted and no accept of it is
\* still running
AcceptedBetween(a, b) ==
    \E f \in DOMAIN friend_requests :
        /\ friend_requests[f].status = "accepted"
        /\ {friend_requests[f].sender_id, friend_requests[f].receiver_id} = {a, b}
        /\ \A q \in Reqs : freq[q].op = "accept_friend_request" => freq[q].target # f

PlainMember(c, u) ==
    /\ c \in DOMAIN chats
    /\ chats[c].chat_type = "group"
    /\ chats[c].owner_id # u
    /\ \E m \in chats[c].members : m.user_id = u /\ m.role = "member"

\* the member's own can_send_messages setting, when its document has one
SendSettings(c, u) ==
    {m.restrictions.flags["can_send_messages"] :
        m \in {x \in chats[c].members :
                  /\ x.user_id = u
                  /\ x.restrictions.has
                  /\ "can_send_messages" \in DOMAIN x.restrictions.flags}}

\* what the member's own setting, or else the default of the chat, says
MaySend(c, u) ==
    IF SendSettings(c, u) # {} THEN TRUE \in SendSettings(c, u)
    ELSE chats[c].default_permissions.can_send_messages

\* C17: a send by a plain member of a group that is not banned passes the
\* gate exactly when the member's own can_send_messages setting allows it or,
\* without such a setting, when the default of the chat allows it; otherwise
\* it is answered 403.
SendFollowsSetting ==
    [][\A q \in Reqs, c \in NamedIds :
          (/\ PlainMember(c, ReqUser(q))
           /\ ~is_user_banned(c, ReqUser(q))
           /\ SendGate(q, c, None)) =>
              IF MaySend(c, ReqUser(q))
              THEN creq'[q].pc = "allowed"
              ELSE /\ resp' \in {"403:restricted", "403:disabled"}
                   /\ creq'[q].pc = "idle"]_vars


\* C18: a send to a group by an identity on the ban list of the group is
\* answered 403 with the reason "banned".
BannedSendSaysBanned ==
    [][\A q \in Reqs, c \in NamedIds :
          (/\ c \in DOMAIN chats
           /\ chats[c].chat_type = "group"
           /\ is_user_banned(c, ReqUser(q))
           /\ SendGate(q, c, None)) =>
              /\ resp' = "403:banned"
              /\ creq'[q].pc = "idle"]_vars


\* a join or an invitation that has passed its checks and is about to add
\* identity u to chat c
AddingTo(c, u) ==
    \E q \in Reqs :
        /\ creq[q].op \in {"join_chat", "invite_users"}
        /\ creq[q].pc = "adding"
        /\ creq[q].chat = c
        /\ creq[q].target = u

\* C19: an unban changes nothing of a chat but its ban list, from which it
\* takes the target (and a refused unban changes nothing); and an identity
\* that is not a participant of a chat becomes one only by the add of a join
\* or of an invitation.
UnbanOnlyUnbans ==
    [][/\ \A u \in Users, t \in Users, c \in NamedIds :
             unban_user(u, c, t) =>
                /\ DOMAIN chats' = DOMAIN chats
                /\ \A x \in DOMAIN chats \ {c} : chats'[x] = chats[x]
                /\ c \in DOMAIN chats =>
                      /\ Participants(chats'[c]) = Participants(chats[c])
                      /\ chats'[c] = IF resp' = "ok:unbanned"
                                     THEN [chats[c] EXCEPT !.banned_users = @ \ {t}]
                                     ELSE chats[c]
       /\ \A c \in DOMAIN chats, u \in Users :
             (/\ u \notin Participants(chats[c])
              /\ u \in Participants(chats'[c])) => AddingTo(c, u)]_vars

\* an unban has just been granted and some identity other than the owner is
\* neither banned from the chat nor a participant of it
C19_Witness ==
    /\ resp = "ok:unbanned"
    /\ \E c \in DOMAIN chats, u \in Users :
          /\ u # chats[c].owner_id
          /\ u \notin BannedIds(chats[c])
          /\ u \notin Participants(chats[c])


\* no key of the reactions map of a message has an empty list
NoEmptyBucket(m) == \A e \in DOMAIN messages[m].reactions : messages[m].reactions[e] # {}

\* C20: when a react request returns, the actor is in no bucket of the message
\* if it held the requested emoji when the request read the message, and
\* otherwise in the bucket of the requested emoji and in no other; and no
\* bucket of the message is empty.
ReactToggles ==
    [][\A r \in Reqs, m \in Msgs, u \in Users, e \in Emojis :
          (/\ rreq[r].op = "react"
           /\ rreq[r].msg = m /\ rreq[r].user = u /\ rreq[r].emoji = e) =>
              /\ (rreq[r].had /\ ReactWrite(r)) =>
                    /\ BucketsOf(messages[m].reactions, u)' = {}
                    /\ NoEmptyBucket(m)'
              /\ ReactEmitAdd(r) =>
                    /\ BucketsOf(messages[m].reactions, u)' = {e}
                    /\ NoEmptyBucket(m)']_vars


\* C21 as stated: a react call hands exactly one event to the room, so the
\* call that broadcasts the 'add' of its emoji has broadcast nothing before.
OneEventPerReact ==
    [][\A r \in Reqs : ReactEmitAdd(r) => rreq[r].removed = None]_vars

\* C21: a react call that toggles the actor's emoji off hands one event to
\* the room, the removal; a call that adds an emoji hands the 'add' event to
\* the room, one removal at most before it, and that removal is the one of a
\* different emoji the actor was under (a switch hands over two events:
\* 'remove' of the old emoji, then 'add' of the new one).
ReactEventsPerCall ==
    [][\A r \in Reqs :
          /\ ReactRemoveOld(r) =>
                /\ rreq[r].removed = None
                /\ Len(events') = Len(events) + 1
                /\ events'[Len(events')].action = "remove"
                /\ events'[Len(events')].emoji = rreq'[r].removed
          /\ (rreq[r].had /\ ReactWrite(r)) =>
                /\ rreq[r].removed = rreq[r].emoji
                /\ events' = events
          /\ ((~rreq[r].had) /\ ReactWrite(r)) => events' = events
          /\ ReactEmitAdd(r) =>
                /\ Len(events') = Len(events) + 1
                /\ events'[Len(events')].action = "add"
                /\ events'[Len(events')].emoji = rreq[r].emoji
                /\ rreq[r].removed # rreq[r].emoji]_vars

\* a switch is about to broadcast its 'add': the removal of the old emoji is
\* still in flight to the room and the new emoji is written
C21_Witness ==
    \E r \in Reqs :
        /\ rreq[r].op = "react" /\ rreq[r].pc = "written"
        /\ rreq[r].removed \in Emojis \ {rreq[r].emoji}
        /\ \E i \in 1..Len(events) :
              /\ events[i].kind = "message_reaction"
              /\ events[i].user = rreq[r].user
              /\ events[i].action = "remove"
              /\ events[i].emoji = rreq[r].removed


\* the member document of u in chat c has the role admin and names the
\* permission in its admin rights
HasAdminPermission(c, u, permission) ==
    \E m \in chats[c].members :
        /\ m.user_id = u
        /\ m.role = "admin"
        /\ m.admin_rights.has
        /\ permission \in m.admin_rights.permissions

\* what an admin gate may answer to actor u of chat c: ok to the owner, and
\* ok to another actor only if it is an admin with the named permission
GateConforms(c, u, gate, permission) ==
    IF u = chats[c].owner_id THEN gate = "ok"
    ELSE gate = "ok" => HasAdminPermission(c, u, permission)

\* C22: in every group and channel the gates check_can_add_members,
\* check_can_remove_member, check_can_ban_users (for a target other than the
\* owner), check_can_change_info and check_can_pin_messages allow the owner
\* and allow another actor only if it is an admin whose admin rights name the
\* permission of the gate; check_can_promote_to_admin allows the owner only.
AdminGates ==
    \A c \in DOMAIN chats : \A u \in Users :
        chats[c].chat_type # "direct" =>
            /\ GateConforms(c, u, check_can_add_members(c, u), "can_invite_users")
            /\ GateConforms(c, u, check_can_change_info(c, u), "can_change_info")
            /\ GateConforms(c, u, check_can_pin_messages(c, u), "can_pin_messages")
            /\ (check_can_promote_to_admin(c, u) = "ok") = (u = chats[c].owner_id)
            /\ \A t \in Users \ {chats[c].owner_id} :
                  /\ GateConforms(c, u, check_can_remove_member(c, u, t),
                                  "can_ban_users")
                  /\ GateConforms(c, u, check_can_ban_users(c, u, t),
                                  "can_ban_users")


\* C23: a ban that has passed its gate and is about to take its target out
\* of the chat never has the owner of the chat as its target, and when its
\* actor is not the owner its target is not an admin of the chat.
OwnerAndAdminsProtected ==
    \A q \in Reqs :
        (creq[q].op = "ban_user" /\ creq[q].pc = "permitted") =>
            LET c == creq[q].chat
                t == creq[q].target IN
            /\ t # chats[c].owner_id
            /\ ReqUser(q) # chats[c].owner_id =>
                  get_member_role(c, t).role # "admin"


\* C24: a send to a channel by a subscriber that is not banned passes the
\* gate when the subscriber is the owner or one of the admins of the channel,
\* and is answered 403 otherwise.
ChannelPosting ==
    [][\A q \in Reqs, c \in NamedIds :
          (/\ c \in DOMAIN chats
           /\ chats[c].chat_type = "channel"
           /\ ReqUser(q) \in chats[c].subscribers
           /\ ~is_user_banned(c, ReqUser(q))
           /\ \E reply_to \in SendReplyIds : SendGate(q, c, reply_to)) =>
              IF ReqUser(q) = chats[c].owner_id \/ ReqUser(q) \in chats[c].admins
              THEN creq'[q].pc = "allowed"
              ELSE /\ resp' = "403:not_admin"
                   /\ creq'[q].pc = "idle"]_vars


\* the reply_to of a stored message names a stored message of the same chat
Resolves(m) ==
    /\ messages[m].reply_to \in DOMAIN messages
    /\ messages[messages[m].reply_to].chat_id = messages[m].chat_id

\* C26: every stored message that has a reply_to replies to a stored message
\* of its own chat: a send whose reply_to does not resolve stores nothing.
ReplyResolves ==
    \A m \in DOMAIN messages : messages[m].reply_to # None => Resolves(m)

\* the mounted send_message answers 400 and stores nothing when the reply_to
\* does not resolve, and goes on to store the message when it does
PostReplyChecked ==
    [][\A r \in Reqs, c \in DOMAIN chats, reply_to \in ReplyIds \ {None} :
          (/\ post_gate(c, ReqUser(r), None) = "ok"
           /\ PostCheck(r, c, reply_to)) =>
              IF ValidReply(c, reply_to)
              THEN rreq'[r].pc = "checked"
              ELSE resp' = "400" /\ rreq'[r].pc = "idle"]_vars
PostReplyStored ==
    \E m \in SentIds \cap DOMAIN messages : messages[m].reply_to # None

\* the actor of a request is a persisted participant of both chats
InBoth(u, dest, src) ==
    /\ dest \in DOMAIN chats /\ u \in chats[dest].participants
    /\ src \in DOMAIN chats /\ u \in chats[src].participants

\* the copies forward_messages has stored
Forwarded == {m \in DOMAIN messages : messages[m].forwarded_from # None}

FanOutNeverFails ==
    [][\A r \in Reqs :
          rreq[r].pc \in {"written", "stored"} /\ rreq'[r].pc = "idle" =>
             resp' = "ok"]_vars

\* the identity has no connection left and no disconnect handler of one of
\* its connections is still running
Gone(u) ==
    /\ user_connections[u] = {}
    /\ \A s \in Sids : dreq[s].pc = "idle" \/ dreq[s].user # u

\* C29: a closed connection is in no room, and an identity whose connections
\* have all closed is in no presence set and in no typing set.
DisconnectClears ==
    /\ \A s \in Sids : status[s] = "closed" => rooms[s] = {}
    /\ \A u \in Users, c \in RoomIds :
          Gone(u) => u \notin chat_presence[c] /\ u \notin typing_users[c]

\* C30: the new_message events of a chat wait for delivery in the order in
\* which their messages were written.
EventsInWriteOrder ==
    \A i \in 1..Len(events), j \in 1..Len(events) :
       (/\ i < j
        /\ events[i].kind = "new_message" /\ events[j].kind = "new_message"
        /\ events[i].chat = events[j].chat) =>
           Rank(events[i].msg) < Rank(events[j].msg)

\* C31: the permission check of a friend request refuses a sender that asks
\* itself, a target that is already a friend and a pair with a block in
\* either direction.
FriendRequestDenied ==
    [][\A u \in Users, t \in Users :
          (/\ FriendGate(u, t)
           /\ u = t \/ t \in friends[u] \/ is_blocked_by_any(u, t)) =>
              resp' # "ok"]_vars

\* C32: no step takes an identity out of the read_by of a message.
ReadByGrows ==
    [][\A m \in DOMAIN messages : messages[m].read_by \subseteq messages'[m].read_by]_vars

\* C33: however often a ban is applied or retried, the member count is the
\* number of members (the count goes down once for each member banned), a
\* banned target has one ban record, and no banned target is a member.
BanIdempotent ==
    \A c \in DOMAIN chats :
       "member_count" \in DOMAIN chats[c] =>
          /\ chats[c].member_count = Cardinality(MemberIds(chats[c]))
          /\ \A t \in Users :
                Cardinality({b \in chats[c].ban_records : b.user_id = t}) <= 1
          /\ BannedIds(chats[c]) \cap MemberIds(chats[c]) = {}

\* C34: a connection id is in the connection set of at most one identity, and
\* a closed connection whose handlers have run to their end is in none.
OneIdentityPerConnection ==
    \A s \in Sids :
       /\ Cardinality(Identity(s)) <= 1
       /\ (status[s] = "closed" /\ areq[s].pc = "idle" /\ dreq[s].pc = "idle") =>
             Identity(s) = {}

\* a block_user request of a on b has made its first write and not its last
Blocking(a, b) ==
    \E q \in Reqs : /\ ReqUser(q) = a
                    /\ freq[q].op = "block_user"
                    /\ freq[q].target = b

\* C35: when one of two identities has blocked the other, and the block
\* request has run to its end, neither is in the friends of the other.
BlockExcludesFriendship ==
    \A a \in Users, b \in Users :
       (HasBlocked(a, b) /\ ~Blocking(a, b)) =>
          b \notin friends[a] /\ a \notin friends[b]

\* C36: the emoji an identity has on a message change only by a write of a
\* request of that identity: the write of another identity's reaction leaves
\* them as they are.
ReactionsKeptApart ==
    [][\A m \in DOMAIN messages, u \in Users :
          BucketsOf(messages'[m].reactions, u) # BucketsOf(messages[m].reactions, u) =>
             \E r \in Reqs : rreq[r].user = u /\ rreq'[r] # rreq[r]]_vars

\* no authenticate and no disconnect handler is in progress for the identity
Settled(u) ==
    \A s \in Sids : /\ areq[s].pc = "idle" \/ areq[s].user # u
                    /\ dreq[s].pc = "idle" \/ dreq[s].user # u

\* the open connections registered for the identity
Live(u) == {s \in user_connections[u] : status[s] = "open"}

\* C37: while no authenticate or disconnect handler is in progress for an
\* identity, its is_online flag is true exactly when it has a live connection.
OnlineIffConnected ==
    \A u \in Users : Settled(u) => (profiles[u].is_online <=> Live(u) # {})

\* C38: a send_message signal that puts a new_message event in a room stores
\* a message of that chat in the same handler, and its identity may send
\* messages to the chat.
SignalMessageStored ==
    [][\A s \in Sids, room \in RoomIds :
          (/\ send_message_signal(s, room)
           /\ \E e \in out'.emits : e.event = "new_message") =>
              /\ \E m \in DOMAIN messages' \ DOMAIN messages :
                    messages'[m].chat_id = room
              /\ check_can_send_message(room, FoundUser(s)) = "ok"]_vars

\* C39: an identity enters or leaves the presence set or the typing set of a
\* chat, or is named in a user_joined or user_typing event, only by a signal
\* of a connection authenticated as that identity.
SignalsOwnIdentity ==
    [][\A c \in RoomIds, u \in Users :
          (\/ (u \in chat_presence'[c]) # (u \in chat_presence[c])
           \/ (u \in typing_users'[c]) # (u \in typing_users[c])
           \/ \E e \in out'.emits :
                 e.event \in {"user_joined", "user_typing"} /\ e.user = u) =>
              u \in Identity(out'.sid)]_vars

\* the persisted participants of the chat of a message
ParticipantsOf(m) == Participants(chats[messages[m].chat_id])

\* C40: an identity enters the read_by, the deleted_for or the reactions of a
\* message, and is named in an event sent to the room of its chat, only when
\* it is a persisted participant of the chat of the message.
ParticipantsOnly ==
    [][/\ \A m \in DOMAIN messages :
             /\ messages'[m].read_by \ messages[m].read_by \subseteq ParticipantsOf(m)
             /\ messages'[m].deleted_for \ messages[m].deleted_for
                   \subseteq ParticipantsOf(m)
             /\ \A u \in Users :
                   BucketsOf(messages'[m].reactions, u)
                         \ BucketsOf(messages[m].reactions, u) # {}
                      => u \in ParticipantsOf(m)
       /\ Len(events') > Len(events) =>
             events'[Len(events')].user
                \in Participants(chats[events'[Len(events')].chat])]_vars

\* C25: a message whose deleted flag is set has the tombstone as its content,
\* in every state after the delete for everyone was written.
TombstoneStays ==
    \A m \in DOMAIN messages :
        messages[m].deleted => messages[m].content = WasDeleted

====
